---- MODULE Spec2Model ----
(***************************************************************************)
(* Currency API: the repository (record access layer over the currencies   *)
(* table), the cached query service (cache-aside reads, invalidation on    *)
(* write) and the HTTP handlers that call it.                              *)
(*                                                                         *)
(* Every database statement and every cache command is one atomic step of  *)
(* the request that issues it; the local computation between two of them   *)
(* belongs to the step that precedes it.  CreatedAt / UpdatedAt are left   *)
(* out of the record: no operation reads them.                             *)
(***************************************************************************)
EXTENDS Integers, Sequences, FiniteSets, TLC

\* ------------------------------------------------------------- bounds
MaxBatch == 3
NumProcs == 2
MaxWrites == 2

\* ---------------------------------------------------------- constants
NilUUID == 0
DefaultFactor == 100
CacheTimeout == 15
MaxCachedLimit == 100
DefaultFormat == "###,###.##"
PlaceholderUser == "1609b0e1-30c4-402c-a76e-8f5b4d6cfc24"
NilUser == "00000000-0000-0000-0000-000000000000"

\* ------------------------------------------------------------ strings
\* A code is a sequence of characters, so that len() and ToUpper() are
\* computed and not assumed.
Alphabet == <<"D", "E", "R", "S", "U", "d", "s", "u">>

CharRank(c) == CHOOSE i \in 1..Len(Alphabet) : Alphabet[i] = c

UpperChar(c) ==
    CASE c = "d" -> "D"
      [] c = "s" -> "S"
      [] c = "u" -> "U"
      [] OTHER -> c

\* A conversion that leaves the letters as they are.
KeepCase(s) == s

ToUpper(s) == [i \in 1..Len(s) |-> UpperChar(s[i])]

USD == <<"U", "S", "D">>
EUR == <<"E", "U", "R">>
usd == <<"u", "s", "d">>
US == <<"U", "S">>
Empty == <<>>

\* s sorts strictly before t (bytewise, as ORDER BY code ASC does).
RECURSIVE CodeLess(_, _)
CodeLess(s, t) ==
    IF t = <<>> THEN FALSE
    ELSE IF s = <<>> THEN TRUE
    ELSE IF CharRank(Head(s)) # CharRank(Head(t))
         THEN CharRank(Head(s)) < CharRank(Head(t))
    ELSE CodeLess(Tail(s), Tail(t))

\* ------------------------------------------------------------- model
Currency(id, code, desc, fmt, sym, factor, by) ==
    [ID |-> id, Code |-> code, Description |-> desc,
     AmountDisplayFormat |-> fmt, HtmlEncodedSymbol |-> sym,
     Factor |-> factor, CreatedBy |-> by]

NoCurrency == Currency(NilUUID, Empty, "", "", "", 0, NilUser)

BeforeCreate(cur, fresh) ==
    IF cur.ID = NilUUID THEN [cur EXCEPT !.ID = fresh] ELSE cur

\* The column defaults of the model's gorm tags: an insert of a zero
\* value takes the column's default.
ColumnDefaults(cur) ==
    [cur EXCEPT
        !.AmountDisplayFormat = IF @ = "" THEN DefaultFormat ELSE @,
        !.Factor = IF @ = 0 THEN DefaultFactor ELSE @]

\* ------------------------------------------------------- repository
\* The table is a set of rows; id is the primary key and code is unique.
RowsById(rows, id) == {r \in rows : r.ID = id}
RowsByCode(rows, code) == {r \in rows : r.Code = code}

UniqueViolation(rows, cur) ==
    \E r \in rows : r.ID = cur.ID \/ r.Code = cur.Code

\* Result of a repository call: err is "" on success.
Result(err, rows, cur) == [err |-> err, rows |-> rows, cur |-> cur]

RepoCreateNoUnique(rows, cur, fresh) ==
    LET row == ColumnDefaults(BeforeCreate(cur, fresh))
    IN Result("", rows \cup {row}, row)

RepoCreate(rows, cur, fresh) ==
    LET row == ColumnDefaults(BeforeCreate(cur, fresh))
    IN IF UniqueViolation(rows, row)
       THEN Result("duplicate key", rows, BeforeCreate(cur, fresh))
       ELSE Result("", rows \cup {row}, row)

RepoGetByID(rows, id) ==
    IF RowsById(rows, id) = {}
    THEN Result("not found", rows, NoCurrency)
    ELSE Result("", rows, CHOOSE r \in RowsById(rows, id) : TRUE)

RepoGetByCode(rows, code) ==
    IF RowsByCode(rows, code) = {}
    THEN Result("not found", rows, NoCurrency)
    ELSE Result("", rows, CHOOSE r \in RowsByCode(rows, code) : TRUE)

\* The rows in ascending order of code.
RECURSIVE OrderByCode(_)
OrderByCode(rows) ==
    IF rows = {} THEN <<>>
    ELSE LET first == CHOOSE r \in rows :
                        \A o \in rows \ {r} : CodeLess(r.Code, o.Code)
         IN <<first>> \o OrderByCode(rows \ {first})

Min(a, b) == IF a < b THEN a ELSE b

RepoGetAll(rows, limit, offset) ==
    LET all == OrderByCode(rows)
        skipped == IF offset > 0
                   THEN SubSeq(all, Min(offset, Len(all)) + 1, Len(all))
                   ELSE all
    IN IF limit > 0 THEN SubSeq(skipped, 1, Min(limit, Len(skipped)))
       ELSE skipped

\* Updates(currency) with a struct writes the non-zero fields only; the
\* primary key selects the row and is not assigned.
Assign(row, cur) ==
    [row EXCEPT
        !.Code = IF cur.Code # Empty THEN cur.Code ELSE @,
        !.Description = IF cur.Description # "" THEN cur.Description ELSE @,
        !.AmountDisplayFormat =
            IF cur.AmountDisplayFormat # "" THEN cur.AmountDisplayFormat ELSE @,
        !.HtmlEncodedSymbol =
            IF cur.HtmlEncodedSymbol # "" THEN cur.HtmlEncodedSymbol ELSE @,
        !.Factor = IF cur.Factor # 0 THEN cur.Factor ELSE @,
        !.CreatedBy = IF cur.CreatedBy # NilUser THEN cur.CreatedBy ELSE @]

RepoUpdate(rows, cur) ==
    LET hit == RowsById(rows, cur.ID)
        rest == rows \ hit
        new == {Assign(r, cur) : r \in hit}
    IN IF \E n \in new : \E o \in rest : o.Code = n.Code
       THEN Result("duplicate key", rows, cur)
       ELSE Result("", rest \cup new, cur)

\* A Delete that reports the affected row and leaves it in the table.
RepoDeleteKeep(rows, id) ==
    IF RowsById(rows, id) = {}
    THEN Result("not found", rows, NoCurrency)
    ELSE Result("", rows, NoCurrency)

RepoDelete(rows, id) ==
    IF RowsById(rows, id) = {}
    THEN Result("not found", rows, NoCurrency)
    ELSE Result("", rows \ RowsById(rows, id), NoCurrency)

RepoGetCount(rows) == Cardinality(rows)

\* The loop of the transaction: the inserts in order, up to the first one
\* that fails.  ids[i] is the uuid BeforeCreate draws for the i-th record;
\* io is the position of the insert whose statement fails for a reason of
\* the connection, 0 if there is none.
RECURSIVE InsertAll(_, _, _, _)
InsertAll(rows, curs, ids, io) ==
    IF curs = <<>> THEN Result("", rows, NoCurrency)
    ELSE LET one == IF io = 1 THEN Result("io error", rows, Head(curs))
                    ELSE RepoCreate(rows, Head(curs), Head(ids))
         IN IF one.err # "" THEN one
            ELSE InsertAll(one.rows, Tail(curs), Tail(ids),
                           IF io > 0 THEN io - 1 ELSE 0)

\* A batch whose failure keeps the rows inserted before it.
RepoCreateBatchNoRollback(rows, curs, ids, io) ==
    IF Len(curs) = 0 THEN Result("", rows, NoCurrency)
    ELSE InsertAll(rows, curs, ids, io)

\* One transaction: a failure of the loop rolls every insert back.
RepoCreateBatch(rows, curs, ids, io) ==
    IF Len(curs) = 0 THEN Result("", rows, NoCurrency)
    ELSE LET tx == InsertAll(rows, curs, ids, io)
         IN IF tx.err # "" THEN Result(tx.err, rows, tx.cur)
            ELSE Result("", tx.rows, NoCurrency)

\* ------------------------------------------------------------ cache
\* The cache maps a key to [val, ttl]: the stored JSON text and the time
\* the entry still has to live.  A key is the tuple of the parts that
\* fmt.Sprintf joins.
CodeKey(code) == <<"currency:code:", code>>
ListKey(limit, offset) == <<"currencies:all:", limit, offset>>
IsListKey(k) == k[1] = "currencies:all:"

\* encoding/json on a Currency: the fields in declaration order, and back.
Marshal(cur) ==
    <<cur.ID, cur.Code, cur.Description, cur.AmountDisplayFormat,
      cur.HtmlEncodedSymbol, cur.Factor, cur.CreatedBy>>

Unmarshal(js) == Currency(js[1], js[2], js[3], js[4], js[5], js[6], js[7])

\* A value that is not JSON, and json.Unmarshal's err == nil on a value.
Garbage == <<"{">>
DecodesCurrency(js) == js # Garbage /\ Len(js) = 7
DecodesList(js) == js # Garbage /\ \A i \in 1..Len(js) : DecodesCurrency(js[i])

MarshalList(curs) == [i \in 1..Len(curs) |-> Marshal(curs[i])]
UnmarshalList(js) == [i \in 1..Len(js) |-> Unmarshal(js[i])]

\* A cache whose entries live one minute less than asked for.
CacheSetShort(c, key, val, ttl) ==
    [k \in DOMAIN c \cup {key} |->
        IF k = key THEN [val |-> val, ttl |-> ttl - 1] ELSE c[k]]

CacheSet(c, key, val, ttl) ==
    [k \in DOMAIN c \cup {key} |->
        IF k = key THEN [val |-> val, ttl |-> ttl] ELSE c[k]]

\* A Del that removes only one of the keys it is given.
CacheDelOne(c, keys) ==
    IF keys = {} THEN c
    ELSE LET one == CHOOSE k \in keys : TRUE
         IN [k \in DOMAIN c \ {one} |-> c[k]]

CacheDel(c, keys) == [k \in DOMAIN c \ keys |-> c[k]]

CacheKeys(c) == {k \in DOMAIN c : IsListKey(k)}

\* A cache whose entries never expire.
CacheAgeForever(c, d) == c

\* d minutes pass: entries whose time to live is used up are gone.
CacheAge(c, d) ==
    [k \in {x \in DOMAIN c : c[x].ttl > d} |-> [c[k] EXCEPT !.ttl = @ - d]]

EmptyCache == [k \in {} |-> 0]

\* ------------------------------------------------------------- state
VARIABLES
    store,      \* the currencies table: a set of rows
    nextId,     \* the next uuid that uuid.New() draws
    cache,      \* the cache store: key -> [val, ttl]
    pc,         \* per request worker: the call it is about to make
    req,        \* per request worker: the locals of its request
    res,        \* per request worker: the response of its last request
    nwrites,    \* write requests started so far
    prev,       \* history: the call of GetCurrencyByCode that came last
    deleted     \* history: per code, how its last delete ended

vars == <<store, nextId, cache, pc, req, res, nwrites, prev, deleted>>

Procs == 1..NumProcs

\* getQueryInt: a query parameter is absent, not a number, or a number.
QueryParam(kind, n) == [kind |-> kind, n |-> n]
Absent == QueryParam("absent", 0)
getQueryInt(param, defaultValue) ==
    IF param.kind = "int" THEN param.n ELSE defaultValue

\* A limit validated by raising every value below 1 to 1.
ValidLimitFromOne(limit) ==
    IF limit > 100 THEN 100 ELSE IF limit < 1 THEN 1 ELSE limit

\* GetCurrencies, "Validate pagination parameters": a limit above 100
\* becomes 100, a limit below 1 becomes 10.
ValidLimit(limit) ==
    IF limit > 100 THEN 100 ELSE IF limit < 1 THEN 10 ELSE limit

\* ------------------------------------------------------------ inputs
RawCodes == {USD, usd, EUR, US}
Codes == {USD, EUR}
Descriptions == {"Dollar", "Euro"}
Formats == {"#.#"}
Symbols == {"$"}
Factors == {-1, 1}
Users == {"u1"}
\* (limit, offset) pairs of the list queries
Queries == {<<0, 0>>, <<100, 0>>, <<101, 0>>, <<50, 10>>, <<100, 10>>}
NotANumber == QueryParam("text", 0)
PageParams == {Absent, QueryParam("int", 2)}
LimitParams == {QueryParam("int", 100)}
TickSteps == {14, 15}
Outcomes == BOOLEAN     \* a cache command or a statement succeeds or fails

SeedUSD == Currency(1, USD, "Dollar", DefaultFormat, "$", DefaultFactor,
                    PlaceholderUser)

NoUpdate == [Description |-> "", AmountDisplayFormat |-> "",
             HtmlEncodedSymbol |-> "", Factor |-> 0]

\* The bodies of PUT: at most one field is given.
UpdateCurrencyRequests ==
    {NoUpdate}
    \cup {[NoUpdate EXCEPT !.Description = d] : d \in {"Euro"}}
    \cup {[NoUpdate EXCEPT !.AmountDisplayFormat = f] : f \in Formats}
    \cup {[NoUpdate EXCEPT !.HtmlEncodedSymbol = y] : y \in Symbols}
    \cup {[NoUpdate EXCEPT !.Factor = n] : n \in Factors}

\* The bodies of POST: code and description, and at most one optional field.
CreateCurrencyRequests ==
    {[Code |-> c, Description |-> d, AmountDisplayFormat |-> u.AmountDisplayFormat,
      HtmlEncodedSymbol |-> u.HtmlEncodedSymbol, Factor |-> u.Factor] :
        c \in RawCodes, d \in {"", "Dollar"},
        u \in {x \in UpdateCurrencyRequests : x.Description = ""}}

NoBody == [Code |-> Empty, Description |-> "", AmountDisplayFormat |-> "",
           HtmlEncodedSymbol |-> "", Factor |-> 0]

\* -------------------------------------------------- request workers
IdleReq ==
    [h |-> "none", svc |-> "none", code |-> Empty, cur |-> NoCurrency,
     id |-> NilUUID, upd |-> NoUpdate, limit |-> 0, offset |-> 0, page |-> 0,
     keys |-> {}, list |-> <<>>,
     \* what the request did, kept for the properties below
     hit |-> FALSE, repo |-> FALSE, failed |-> {}, touched |-> {},
     arg |-> NoCurrency, old |-> {}, age |-> 0,
     \* the request line, when the request came through the router
     method |-> "", path |-> <<>>, body |-> NoBody,
     \* the rows of the table when the request began, where a property
     \* needs them
     began |-> {},
     \* the cache answers every command of this request
     cacheUp |-> FALSE,
     \* the query parameters of a list request as they arrived
     query |-> [page |-> Absent, limit |-> Absent]]

Response(status, err, cur, list) ==
    [status |-> status, err |-> err, cur |-> cur, list |-> list,
     page |-> 0, limit |-> 0, offset |-> 0, total |-> 0]

NoResponse == Response(0, "", NoCurrency, <<>>)

Out(label, rq, rs) == [pc |-> label, req |-> rq, res |-> rs]

Go(p, out) ==
    /\ pc' = [pc EXCEPT ![p] = out.pc]
    /\ req' = [req EXCEPT ![p] = out.req]
    /\ res' = [res EXCEPT ![p] = out.res]

\* strings.Contains(err.Error(), "duplicate")
IsDuplicate(err) == err = "duplicate key"

\* --- what a finished service call hands back to its caller -----------

\* A write of the service has returned err ("" for nil).
AfterWrite(rq, err) ==
    CASE rq.h = "create" ->
            IF err = "" THEN Out("done", rq, Response(201, "", rq.cur, <<>>))
            ELSE IF IsDuplicate(err)
                 THEN Out("done", rq, Response(409, err, NoCurrency, <<>>))
            ELSE Out("done", rq, Response(500, err, NoCurrency, <<>>))
      [] rq.h = "update" ->
            IF err = "" THEN Out("done", rq, Response(200, "", rq.cur, <<>>))
            ELSE Out("done", rq, Response(500, err, NoCurrency, <<>>))
      [] rq.h = "delete" ->
            IF err = "" THEN Out("done", rq, Response(200, "", NoCurrency, <<>>))
            ELSE Out("done", rq, Response(500, err, NoCurrency, <<>>))
      [] OTHER -> Out("done", rq, Response(0, err, NoCurrency, <<>>))

\* A CreateCurrency that validates and sets no default.
ServiceCreateNoDefaults(rq) ==
    IF rq.cur.Code = Empty \/ rq.cur.Description = ""
    THEN AfterWrite([rq EXCEPT !.svc = "create"], "validation")
    ELSE Out("create_repo", [rq EXCEPT !.svc = "create"], NoResponse)

\* CurrencyService.CreateCurrency up to its repository call.
ServiceCreateEntry(rq) ==
    LET c == rq.cur IN
    IF c.Code = Empty \/ c.Description = ""
    THEN AfterWrite([rq EXCEPT !.svc = "create"], "validation")
    ELSE LET d == [c EXCEPT
                     !.Factor = IF @ = 0 THEN DefaultFactor ELSE @,
                     !.AmountDisplayFormat = IF @ = "" THEN DefaultFormat ELSE @,
                     !.CreatedBy = IF @ = NilUser THEN PlaceholderUser ELSE @]
         IN Out("create_repo", [rq EXCEPT !.svc = "create", !.cur = d], NoResponse)

\* An UpdateCurrency that validates nothing.
ServiceUpdateNoValidation(rq) ==
    Out("update_repo", [rq EXCEPT !.svc = "update"], NoResponse)

\* CurrencyService.UpdateCurrency up to its repository call.
ServiceUpdateEntry(rq) ==
    IF rq.cur.Code = Empty \/ rq.cur.Description = ""
    THEN AfterWrite([rq EXCEPT !.svc = "update"], "validation")
    ELSE Out("update_repo", [rq EXCEPT !.svc = "update"], NoResponse)

\* CurrencyService.DeleteCurrency starts with the fetch by id.
ServiceDeleteEntry(rq) == Out("delete_get", [rq EXCEPT !.svc = "delete"], NoResponse)

\* The handler's "update fields if provided".
ApplyUpdate(cur, u) ==
    [cur EXCEPT
        !.Description = IF u.Description # "" THEN u.Description ELSE @,
        !.AmountDisplayFormat =
            IF u.AmountDisplayFormat # "" THEN u.AmountDisplayFormat ELSE @,
        !.HtmlEncodedSymbol =
            IF u.HtmlEncodedSymbol # "" THEN u.HtmlEncodedSymbol ELSE @,
        !.Factor = IF u.Factor > 0 THEN u.Factor ELSE @]

\* CurrencyService.GetCurrencyByCode has returned (cur, err).
AfterGetByCode(rq, cur, err) ==
    CASE rq.h = "get" ->
            IF err # "" THEN Out("done", rq, Response(404, err, NoCurrency, <<>>))
            ELSE Out("done", rq, Response(200, "", cur, <<>>))
      [] rq.h = "update" ->
            IF err # "" THEN Out("done", rq, Response(404, err, NoCurrency, <<>>))
            ELSE ServiceUpdateEntry([rq EXCEPT !.cur = ApplyUpdate(cur, rq.upd)])
      [] rq.h = "delete" ->
            IF err # "" THEN Out("done", rq, Response(404, err, NoCurrency, <<>>))
            ELSE ServiceDeleteEntry([rq EXCEPT !.id = cur.ID])
      [] OTHER -> Out("done", rq, Response(0, err, cur, <<>>))

\* CurrencyService.GetAllCurrencies has returned (list, err).
AfterGetAll(rq, list, err) ==
    IF rq.h = "list"
    THEN IF err # "" THEN Out("done", rq, Response(500, err, NoCurrency, <<>>))
         ELSE Out("count", [rq EXCEPT !.list = list], NoResponse)
    ELSE Out("done", rq, Response(0, err, NoCurrency, list))

\* A service that sends every first page through the cache, whatever its limit.
ServiceGetAllAnyLimit(rq) ==
    IF rq.offset = 0
    THEN Out("list_cache", [rq EXCEPT !.svc = "list"], NoResponse)
    ELSE Out("list_direct", [rq EXCEPT !.svc = "list"], NoResponse)

\* CurrencyService.GetAllCurrencies up to its first call: only the first
\* page with a limit of at most 100 goes through the cache.
ServiceGetAllEntry(rq) ==
    IF rq.offset = 0 /\ rq.limit <= MaxCachedLimit
    THEN Out("list_cache", [rq EXCEPT !.svc = "list"], NoResponse)
    ELSE Out("list_direct", [rq EXCEPT !.svc = "list"], NoResponse)

\* json.Unmarshal of the value the Get returned has failed.
Undecoded(rq) == [rq EXCEPT !.failed = @ \cup {"decode"}]

\* The outcomes of a cache command of request rq.
CacheOutcomes(rq) == IF rq.cacheUp THEN {TRUE} ELSE Outcomes

Touch(rq, op, key, ok) ==
    [rq EXCEPT !.touched = @ \cup {<<op, key>>},
               !.failed = IF ok THEN @ ELSE @ \cup {op}]

Idle(p) == pc[p] = "idle"

\* --- history -----------------------------------------------------------
NoPrev == [code |-> Empty, cur |-> NoCurrency, failed |-> {}, age |-> 0]

\* The request that returns is a GetCurrencyByCode that missed the cache
\* and fetched the record.
FetchedByCode(rq, rs) ==
    /\ rq.h \in {"none", "get"} /\ rq.svc = "get"
    /\ ~rq.hit /\ rq.repo /\ rs.err = "" /\ rs.status \in {0, 200}

Older(age, d) == Min(age + d, CacheTimeout)

\* A write has put rows with these codes into the table.
Undelete(codes) ==
    deleted' = [c \in DOMAIN deleted |-> IF c \in codes THEN "no" ELSE deleted[c]]

\* A delete of the record with this code has returned success.
Deleted(rq, out) ==
    IF rq.svc = "delete" /\ out.pc = "done" /\ out.res.err = ""
       /\ rq.cur.Code \in DOMAIN deleted
    THEN deleted' = [deleted EXCEPT ![rq.cur.Code] =
                        IF out.req.failed \cap {"del", "keys", "delkeys"} = {}
                        THEN "clean" ELSE "unclean"]
    ELSE UNCHANGED deleted

CanWrite == nwrites < MaxWrites

\* ------------------------------------------------------- HTTP handlers
\* c is the request as the handler receives it (its gin.Context); what c
\* leaves open, the code in its path or its body, is drawn from the inputs.
\* c.Param("code")
CodeParam(c) == IF Len(c.path) = 4 THEN {c.path[4]} ELSE RawCodes

\* c.ShouldBindJSON(&req) of CreateCurrency
CreateBody(c, bodies) == IF c.body = NoBody THEN bodies ELSE {c.body}

\* GET /api/v1/currencies/:code
GetCurrencyByCode(p, c) ==
    /\ Idle(p)
    /\ \E raw \in CodeParam(c) :
        LET code == ToUpper(raw)
            rq == [c EXCEPT !.h = "get", !.svc = "get", !.code = code]
        IN IF Len(code) # 3
           THEN Go(p, Out("done", rq, Response(400, "", NoCurrency, <<>>)))
           ELSE Go(p, Out("get_cache", rq, NoResponse))
    /\ UNCHANGED <<store, nextId, cache, nwrites, prev, deleted>>

\* GET /api/v1/currencies (without search and factor parameters)
GetCurrencies(p, in, c) ==
    /\ Idle(p)
    /\ \E pageParam \in in.pages, limitParam \in in.limitParams :
        LET page == getQueryInt(pageParam, 1)
            limit == getQueryInt(limitParam, 50)
            offset == (page - 1) * limit
            clamped == ValidLimit(limit)
            rq == [c EXCEPT !.h = "list", !.page = page,
                            !.limit = clamped, !.offset = offset,
                            !.query = [page |-> pageParam, limit |-> limitParam]]
        IN Go(p, ServiceGetAllEntry(rq))
    /\ prev' = NoPrev
    /\ UNCHANGED <<store, nextId, cache, nwrites, deleted>>

\* POST /api/v1/currencies
CreateCurrency(p, in, c) ==
    /\ Idle(p) /\ CanWrite
    /\ \E body \in CreateBody(c, in.creates) :
        LET cur == Currency(NilUUID, ToUpper(body.Code), body.Description,
                            body.AmountDisplayFormat, body.HtmlEncodedSymbol,
                            body.Factor, NilUser)
            rq == [c EXCEPT !.h = "create", !.cur = cur, !.arg = cur]
        IN IF Len(body.Code) # 3 \/ body.Description = ""
           THEN Go(p, Out("done", rq, Response(400, "", NoCurrency, <<>>)))
           ELSE Go(p, ServiceCreateEntry(rq))
    /\ nwrites' = nwrites + 1
    /\ prev' = NoPrev
    /\ UNCHANGED <<store, nextId, cache, deleted>>

\* PUT /api/v1/currencies/:code
UpdateCurrency(p, in, c) ==
    /\ Idle(p) /\ CanWrite
    /\ \E raw \in CodeParam(c), body \in in.updates :
        LET code == ToUpper(raw)
            rq == [c EXCEPT !.h = "update", !.svc = "get",
                                  !.code = code, !.upd = body]
        IN IF Len(code) # 3
           THEN Go(p, Out("done", rq, Response(400, "", NoCurrency, <<>>)))
           ELSE Go(p, Out("get_cache", rq, NoResponse))
    /\ nwrites' = nwrites + 1
    /\ prev' = NoPrev
    /\ UNCHANGED <<store, nextId, cache, deleted>>

\* DELETE /api/v1/currencies/:code
DeleteCurrency(p, c) ==
    /\ Idle(p) /\ CanWrite
    /\ \E raw \in CodeParam(c) :
        LET code == ToUpper(raw)
            rq == [c EXCEPT !.h = "delete", !.svc = "get", !.code = code]
        IN IF Len(code) # 3
           THEN Go(p, Out("done", rq, Response(400, "", NoCurrency, <<>>)))
           ELSE Go(p, Out("get_cache", rq, NoResponse))
    /\ nwrites' = nwrites + 1
    /\ prev' = NoPrev
    /\ UNCHANGED <<store, nextId, cache, deleted>>

\* The handlers called without a router in front of them.
HandlerGetCurrencyByCode(p) == GetCurrencyByCode(p, IdleReq)
HandlerGetCurrencies(p, in) == GetCurrencies(p, in, IdleReq)
HandlerCreateCurrency(p, in) == CreateCurrency(p, in, IdleReq)
HandlerUpdateCurrency(p, in) == UpdateCurrency(p, in, IdleReq)
HandlerDeleteCurrency(p) == DeleteCurrency(p, IdleReq)

\* ------------------------------------- direct calls of the service
ServiceCreateCurrency(p, in) ==
    /\ Idle(p) /\ CanWrite
    /\ \E c \in Codes \cup {Empty}, d \in {"", "Dollar"}, by \in in.users \cup {NilUser} :
        LET cur == Currency(NilUUID, c, d, "", "", 0, by)
        IN Go(p, ServiceCreateEntry([IdleReq EXCEPT !.cur = cur, !.arg = cur]))
    /\ nwrites' = nwrites + 1
    /\ prev' = NoPrev
    /\ UNCHANGED <<store, nextId, cache, deleted>>

ServiceGetCurrencyByCode(p) ==
    /\ Idle(p)
    /\ \E c \in Codes :
        Go(p, Out("get_cache", [IdleReq EXCEPT !.svc = "get", !.code = c], NoResponse))
    /\ UNCHANGED <<store, nextId, cache, nwrites, prev, deleted>>

ServiceGetAllCurrencies(p, in) ==
    /\ Idle(p)
    /\ \E q \in in.queries :
        Go(p, ServiceGetAllEntry([IdleReq EXCEPT !.limit = q[1], !.offset = q[2]]))
    /\ prev' = NoPrev
    /\ UNCHANGED <<store, nextId, cache, nwrites, deleted>>

\* The caller passes a record it fetched earlier, possibly with a new
\* code or description, or a record whose id is in no row.
ServiceUpdateInputs(in) ==
    LET bases == store \cup {[SeedUSD EXCEPT !.ID = nextId]}
    IN {[b EXCEPT !.Code = c, !.Description = d] :
            b \in bases, c \in in.newCodes, d \in {"", "Euro"}}

ServiceUpdateCurrency(p, in) ==
    /\ Idle(p) /\ CanWrite
    /\ \E cur \in ServiceUpdateInputs(in) :
        Go(p, ServiceUpdateEntry([IdleReq EXCEPT !.cur = cur, !.arg = cur]))
    /\ nwrites' = nwrites + 1
    /\ prev' = NoPrev
    /\ UNCHANGED <<store, nextId, cache, deleted>>

ServiceDeleteCurrency(p) ==
    /\ Idle(p) /\ CanWrite
    /\ \E id \in 1..nextId :
        Go(p, ServiceDeleteEntry([IdleReq EXCEPT !.id = id]))
    /\ nwrites' = nwrites + 1
    /\ prev' = NoPrev
    /\ UNCHANGED <<store, nextId, cache, deleted>>

\* ---------------------------------- direct calls of the repository
\* The records of a batch come without id, format, factor and creator.
BatchRecord(code, desc) == Currency(NilUUID, code, desc, "", "", 0, NilUser)

RECURSIVE SeqsUpTo(_, _)
SeqsUpTo(S, n) ==
    IF n = 0 THEN {<<>>}
    ELSE LET shorter == SeqsUpTo(S, n - 1)
         IN shorter \cup {Append(q, x) : q \in shorter, x \in S}

Batches ==
    SeqsUpTo({BatchRecord(c, d) : c \in {USD, EUR, usd}, d \in {"Dollar", "Euro"}},
             MaxBatch)

RepositoryCreateBatch(p) ==
    /\ Idle(p) /\ CanWrite
    /\ \E curs \in Batches : \E io \in 0..Len(curs) :
        LET ids == [i \in 1..Len(curs) |-> nextId + i - 1]
            r == RepoCreateBatch(store, curs, ids, io)
            rq == [IdleReq EXCEPT !.svc = "batch", !.list = curs,
                                  !.old = store, !.id = io]
        IN /\ store' = r.rows
           /\ nextId' = nextId + Len(curs)
           /\ Undelete({x.Code : x \in r.rows \ store})
           /\ Go(p, Out("done", rq, Response(0, r.err, NoCurrency, <<>>)))
    /\ nwrites' = nwrites + 1
    /\ prev' = NoPrev
    /\ UNCHANGED cache

RepositoryDelete(p) ==
    /\ Idle(p) /\ CanWrite
    /\ \E id \in 1..nextId : \E io \in Outcomes :
        LET r == IF io THEN RepoDelete(store, id)
                 ELSE Result("io error", store, NoCurrency)
            rq == [IdleReq EXCEPT !.svc = "repo_delete", !.id = id, !.old = store]
        IN /\ store' = r.rows
           /\ Go(p, Out("done", rq, Response(0, r.err, NoCurrency, <<>>)))
    /\ nwrites' = nwrites + 1
    /\ prev' = NoPrev
    /\ UNCHANGED <<nextId, cache, deleted>>

\* ------------------------------- CurrencyService.GetCurrencyByCode
\* A GetCurrencyByCode that hands a failed cache Get to its caller.
GetByCodeCacheGetSurfacing(p) ==
    /\ pc[p] = "get_cache"
    /\ \E ok \in CacheOutcomes(req[p]) :
        LET key == CodeKey(req[p].code)
            rq == Touch(req[p], "get", key, ok)
        IN IF ~ok
           THEN Go(p, AfterGetByCode(rq, NoCurrency, "cache error"))
           ELSE IF key \in DOMAIN cache
           THEN Go(p, AfterGetByCode([rq EXCEPT !.hit = TRUE],
                                     Unmarshal(cache[key].val), ""))
           ELSE Go(p, Out("get_repo", rq, NoResponse))
    /\ UNCHANGED <<store, nextId, cache, nwrites, prev, deleted>>

\* A GetCurrencyByCode that reads the repository also after a hit.
GetByCodeCacheGetRevalidating(p) ==
    /\ pc[p] = "get_cache"
    /\ \E ok \in CacheOutcomes(req[p]) :
        Go(p, Out("get_repo", Touch(req[p], "get", CodeKey(req[p].code), ok),
                  NoResponse))
    /\ UNCHANGED <<store, nextId, cache, nwrites, prev, deleted>>

\* A GetCurrencyByCode whose hit renews the entry's time to live.
GetByCodeCacheGetSliding(p) ==
    /\ pc[p] = "get_cache"
    /\ \E ok \in CacheOutcomes(req[p]) :
        LET key == CodeKey(req[p].code)
            rq == Touch(req[p], "get", key, ok)
        IN IF ok /\ key \in DOMAIN cache
           THEN /\ Go(p, AfterGetByCode([rq EXCEPT !.hit = TRUE],
                                        Unmarshal(cache[key].val), ""))
                /\ cache' = CacheSet(cache, key, cache[key].val, CacheTimeout)
           ELSE /\ Go(p, Out("get_repo", rq, NoResponse))
                /\ UNCHANGED cache
    /\ UNCHANGED <<store, nextId, nwrites, prev, deleted>>

\* A GetCurrencyByCode that returns the error of a failed decoding.
GetByCodeCacheGetFailingDecode(p) ==
    /\ pc[p] = "get_cache"
    /\ \E ok \in CacheOutcomes(req[p]) :
        LET key == CodeKey(req[p].code)
            rq == Touch(req[p], "get", key, ok)
        IN IF ok /\ key \in DOMAIN cache
           THEN IF DecodesCurrency(cache[key].val)
                THEN Go(p, AfterGetByCode([rq EXCEPT !.hit = TRUE],
                                          Unmarshal(cache[key].val), ""))
                ELSE Go(p, AfterGetByCode(Undecoded(rq), NoCurrency, "decode error"))
           ELSE Go(p, Out("get_repo", rq, NoResponse))
    /\ UNCHANGED <<store, nextId, cache, nwrites, prev, deleted>>

\* redisClient.Get: a hit that decodes returns the decoded snapshot; a miss,
\* a failed command or a value that does not decode falls through to the
\* repository.
GetByCodeCacheGet(p) ==
    /\ pc[p] = "get_cache"
    /\ \E ok \in CacheOutcomes(req[p]) :
        LET key == CodeKey(req[p].code)
            rq == Touch(req[p], "get", key, ok)
        IN IF ok /\ key \in DOMAIN cache
           THEN IF DecodesCurrency(cache[key].val)
                THEN Go(p, AfterGetByCode([rq EXCEPT !.hit = TRUE],
                                          Unmarshal(cache[key].val), ""))
                ELSE Go(p, Out("get_repo", Undecoded(rq), NoResponse))
           ELSE Go(p, Out("get_repo", rq, NoResponse))
    /\ UNCHANGED <<store, nextId, cache, nwrites, prev, deleted>>

\* A GetCurrencyByCode that caches what the repository returned also when
\* it returned no row.
GetByCodeRepoCachingAbsent(p) ==
    /\ pc[p] = "get_repo"
    /\ \E io \in Outcomes :
        LET r == IF io THEN RepoGetByCode(store, req[p].code)
                 ELSE Result("io error", store, NoCurrency)
            rq == [req[p] EXCEPT !.repo = TRUE]
        IN IF r.err = "io error"
           THEN Go(p, AfterGetByCode(rq, NoCurrency, r.err))
           ELSE Go(p, Out("get_set", [rq EXCEPT !.cur = r.cur], NoResponse))
    /\ UNCHANGED <<store, nextId, cache, nwrites, prev, deleted>>

\* A fetch from a replica that stays at the seeded rows.
GetByCodeRepoLagging(p) ==
    /\ pc[p] = "get_repo"
    /\ \E io \in Outcomes :
        LET r == IF io THEN RepoGetByCode({SeedUSD}, req[p].code)
                 ELSE Result("io error", store, NoCurrency)
            rq == [req[p] EXCEPT !.repo = TRUE]
        IN IF r.err # ""
           THEN Go(p, AfterGetByCode(rq, NoCurrency, r.err))
           ELSE Go(p, Out("get_set", [rq EXCEPT !.cur = r.cur], NoResponse))
    /\ UNCHANGED <<store, nextId, cache, nwrites, prev, deleted>>

\* currencyRepo.GetByCode
GetByCodeRepo(p) ==
    /\ pc[p] = "get_repo"
    /\ \E io \in Outcomes :
        LET r == IF io THEN RepoGetByCode(store, req[p].code)
                 ELSE Result("io error", store, NoCurrency)
            rq == [req[p] EXCEPT !.repo = TRUE]
        IN IF r.err # ""
           THEN Go(p, AfterGetByCode(rq, NoCurrency, r.err))
           ELSE Go(p, Out("get_set", [rq EXCEPT !.cur = r.cur], NoResponse))
    /\ UNCHANGED <<store, nextId, cache, nwrites, prev, deleted>>

\* cacheCurrency: redisClient.Set with the cache timeout, result ignored.
CacheCurrency(p) ==
    /\ pc[p] = "get_set"
    /\ \E ok \in CacheOutcomes(req[p]) :
        LET key == CodeKey(req[p].code)
            rq == [Touch(req[p], "set", key, ok) EXCEPT !.age = 0]
        IN /\ cache' = IF ok THEN CacheSet(cache, key, Marshal(rq.cur), CacheTimeout)
                       ELSE cache
           /\ Go(p, AfterGetByCode(rq, rq.cur, ""))
    /\ UNCHANGED <<store, nextId, nwrites, prev, deleted>>

\* -------------------------------- CurrencyService.GetAllCurrencies
GetAllCacheGet(p) ==
    /\ pc[p] = "list_cache"
    /\ \E ok \in CacheOutcomes(req[p]) :
        LET key == ListKey(req[p].limit, req[p].offset)
            rq == Touch(req[p], "get", key, ok)
        IN IF ok /\ key \in DOMAIN cache
           THEN IF DecodesList(cache[key].val)
                THEN Go(p, AfterGetAll([rq EXCEPT !.hit = TRUE],
                                       UnmarshalList(cache[key].val), ""))
                ELSE Go(p, Out("list_repo", Undecoded(rq), NoResponse))
           ELSE Go(p, Out("list_repo", rq, NoResponse))
    /\ UNCHANGED <<store, nextId, cache, nwrites, prev, deleted>>

GetAllRepo(p) ==
    /\ pc[p] = "list_repo"
    /\ \E io \in Outcomes :
        LET rq == [req[p] EXCEPT !.repo = TRUE]
        IN IF io
           THEN Go(p, Out("list_set",
                    [rq EXCEPT !.list = RepoGetAll(store, rq.limit, rq.offset)],
                    NoResponse))
           ELSE Go(p, AfterGetAll(rq, <<>>, "io error"))
    /\ UNCHANGED <<store, nextId, cache, nwrites, prev, deleted>>

GetAllCacheSet(p) ==
    /\ pc[p] = "list_set"
    /\ \E ok \in CacheOutcomes(req[p]) :
        LET key == ListKey(req[p].limit, req[p].offset)
            rq == Touch(req[p], "set", key, ok)
        IN /\ cache' = IF ok THEN CacheSet(cache, key, MarshalList(rq.list),
                                           CacheTimeout)
                       ELSE cache
           /\ Go(p, AfterGetAll(rq, rq.list, ""))
    /\ UNCHANGED <<store, nextId, nwrites, prev, deleted>>

\* "For other pages, don't cache"
GetAllDirect(p) ==
    /\ pc[p] = "list_direct"
    /\ \E io \in Outcomes :
        LET rq == [req[p] EXCEPT !.repo = TRUE]
        IN IF io
           THEN Go(p, AfterGetAll(rq, RepoGetAll(store, rq.limit, rq.offset), ""))
           ELSE Go(p, AfterGetAll(rq, <<>>, "io error"))
    /\ UNCHANGED <<store, nextId, cache, nwrites, prev, deleted>>

\* GetCurrencyCount for the pagination block; its error is dropped.
GetCurrencyCount(p) ==
    /\ pc[p] = "count"
    /\ \E io \in Outcomes :
        LET rq == req[p]
            total == IF io THEN RepoGetCount(store) ELSE 0
        IN Go(p, Out("done", rq,
                [Response(200, "", NoCurrency, rq.list) EXCEPT
                    !.page = rq.page, !.limit = rq.limit,
                    !.offset = rq.offset, !.total = total]))
    /\ UNCHANGED <<store, nextId, cache, nwrites, prev, deleted>>

\* ------------------------------------------- the service's writes
CreateRepo(p) ==
    /\ pc[p] = "create_repo"
    /\ \E io \in Outcomes :
        LET r == IF io THEN RepoCreate(store, req[p].cur, nextId)
                 ELSE Result("io error", store, BeforeCreate(req[p].cur, nextId))
            rq == [req[p] EXCEPT !.cur = r.cur, !.old = store]
        IN /\ store' = r.rows
           /\ Undelete({x.Code : x \in r.rows \ store})
           /\ IF r.err # "" THEN Go(p, AfterWrite(rq, r.err))
              ELSE Go(p, Out("inv_del", rq, NoResponse))
    /\ nextId' = nextId + 1
    /\ UNCHANGED <<cache, nwrites, prev>>

UpdateRepo(p) ==
    /\ pc[p] = "update_repo"
    /\ \E io \in Outcomes :
        LET r == IF io THEN RepoUpdate(store, req[p].cur)
                 ELSE Result("io error", store, req[p].cur)
            rq == [req[p] EXCEPT !.old = store]
        IN /\ store' = r.rows
           /\ Undelete({x.Code : x \in r.rows \ store})
           /\ IF r.err # "" THEN Go(p, AfterWrite(rq, r.err))
              ELSE Go(p, Out("inv_del", rq, NoResponse))
    /\ UNCHANGED <<nextId, cache, nwrites, prev>>

\* A DeleteCurrency that goes on to Delete whatever the fetch returned.
DeleteGetByIDIgnoring(p) ==
    /\ pc[p] = "delete_get"
    /\ \E io \in Outcomes :
        LET r == IF io THEN RepoGetByID(store, req[p].id)
                 ELSE Result("io error", store, NoCurrency)
        IN Go(p, Out("delete_repo", [req[p] EXCEPT !.cur = r.cur], NoResponse))
    /\ UNCHANGED <<store, nextId, cache, nwrites, prev, deleted>>

\* DeleteCurrency fetches the record first, for its code.
DeleteGetByID(p) ==
    /\ pc[p] = "delete_get"
    /\ \E io \in Outcomes :
        LET r == IF io THEN RepoGetByID(store, req[p].id)
                 ELSE Result("io error", store, NoCurrency)
        IN IF r.err # "" THEN Go(p, AfterWrite(req[p], r.err))
           ELSE Go(p, Out("delete_repo", [req[p] EXCEPT !.cur = r.cur], NoResponse))
    /\ UNCHANGED <<store, nextId, cache, nwrites, prev, deleted>>

\* A DeleteCurrency that invalidates the cache whatever Delete returned.
DeleteRepoInvalidatingAnyway(p) ==
    /\ pc[p] = "delete_repo"
    /\ \E io \in Outcomes :
        LET r == IF io THEN RepoDelete(store, req[p].id)
                 ELSE Result("io error", store, NoCurrency)
            rq == [req[p] EXCEPT !.old = store]
        IN /\ store' = r.rows
           /\ Go(p, Out("inv_del", rq, NoResponse))
    /\ UNCHANGED <<nextId, cache, nwrites, prev, deleted>>

DeleteRepo(p) ==
    /\ pc[p] = "delete_repo"
    /\ \E io \in Outcomes :
        LET r == IF io THEN RepoDelete(store, req[p].id)
                 ELSE Result("io error", store, NoCurrency)
            rq == [req[p] EXCEPT !.old = store]
        IN /\ store' = r.rows
           /\ IF r.err # "" THEN Go(p, AfterWrite(rq, r.err))
              ELSE Go(p, Out("inv_del", rq, NoResponse))
    /\ UNCHANGED <<nextId, cache, nwrites, prev, deleted>>

\* ------------------------------------------------ invalidateCache
\* An invalidation whose failed Del fails the write.
InvalidateDelFailing(p) ==
    /\ pc[p] = "inv_del"
    /\ \E ok \in CacheOutcomes(req[p]) :
        LET key == CodeKey(req[p].cur.Code)
            rq == Touch(req[p], "del", key, ok)
        IN /\ cache' = IF ok THEN CacheDel(cache, {key}) ELSE cache
           /\ IF ok THEN Go(p, Out("inv_keys", rq, NoResponse))
              ELSE Go(p, AfterWrite(rq, "cache error"))
    /\ UNCHANGED <<store, nextId, nwrites, prev, deleted>>

\* redisClient.Del of the record's key; the result is ignored.
InvalidateDel(p) ==
    /\ pc[p] = "inv_del"
    /\ \E ok \in CacheOutcomes(req[p]) :
        LET key == CodeKey(req[p].cur.Code)
        IN /\ cache' = IF ok THEN CacheDel(cache, {key}) ELSE cache
           /\ Go(p, Out("inv_keys", Touch(req[p], "del", key, ok), NoResponse))
    /\ UNCHANGED <<store, nextId, nwrites, prev, deleted>>

\* An invalidation that ends after the Del of the record's key.
InvalidateKeysSkipping(p) ==
    /\ pc[p] = "inv_keys"
    /\ Go(p, AfterWrite(req[p], ""))
    /\ Deleted(req[p], AfterWrite(req[p], ""))
    /\ UNCHANGED <<store, nextId, cache, nwrites, prev>>

\* redisClient.Keys("currencies:all:*")
InvalidateKeys(p) ==
    /\ pc[p] = "inv_keys"
    /\ \E ok \in CacheOutcomes(req[p]) :
        LET keys == CacheKeys(cache)
            rq == [req[p] EXCEPT !.failed = IF ok THEN @ ELSE @ \cup {"keys"}]
        IN IF ok /\ Cardinality(keys) > 0
           THEN /\ Go(p, Out("inv_list", [rq EXCEPT !.keys = keys], NoResponse))
                /\ UNCHANGED deleted
           ELSE /\ Go(p, AfterWrite(rq, ""))
                /\ Deleted(rq, AfterWrite(rq, ""))
    /\ UNCHANGED <<store, nextId, cache, nwrites, prev>>

\* redisClient.Del(keys...)
InvalidateDelKeys(p) ==
    /\ pc[p] = "inv_list"
    /\ \E ok \in CacheOutcomes(req[p]) :
        LET rq == [req[p] EXCEPT !.failed = IF ok THEN @ ELSE @ \cup {"delkeys"}]
        IN /\ cache' = IF ok THEN CacheDel(cache, rq.keys) ELSE cache
           /\ Go(p, AfterWrite(rq, ""))
           /\ Deleted(rq, AfterWrite(rq, ""))
    /\ UNCHANGED <<store, nextId, nwrites, prev>>

\* ----------------------------------------------------- environment
\* The response has been written: the worker takes the next request.
Return(p) ==
    /\ pc[p] = "done"
    /\ Go(p, Out("idle", IdleReq, NoResponse))
    /\ prev' = IF FetchedByCode(req[p], res[p])
               THEN [code |-> req[p].code, cur |-> res[p].cur,
                     failed |-> req[p].failed, age |-> req[p].age]
               ELSE NoPrev
    /\ UNCHANGED <<store, nextId, cache, nwrites, deleted>>

\* Time passes.
Tick ==
    /\ DOMAIN cache # {}
    /\ \E d \in TickSteps :
        /\ cache' = CacheAge(cache, d)
        /\ req' = [p \in Procs |->
                    IF pc[p] = "done" /\ FetchedByCode(req[p], res[p])
                    THEN [req[p] EXCEPT !.age = Older(@, d)]
                    ELSE req[p]]
        /\ prev' = IF prev = NoPrev THEN prev
                   ELSE [prev EXCEPT !.age = Older(@, d)]
    /\ UNCHANGED <<store, nextId, pc, res, nwrites, deleted>>

\* Something other than the service leaves a value that is not JSON
\* under a key of the cache.
Corrupt ==
    /\ \E k \in DOMAIN cache :
        /\ cache[k].val # Garbage
        /\ cache' = [cache EXCEPT ![k].val = Garbage]
    /\ UNCHANGED <<store, nextId, pc, req, res, nwrites, prev, deleted>>

\* One step of worker p; in holds the sets the requests are drawn from.
Step(p, in) ==
    \/ HandlerGetCurrencyByCode(p)
    \/ HandlerGetCurrencies(p, in)
    \/ HandlerCreateCurrency(p, in)
    \/ HandlerUpdateCurrency(p, in)
    \/ HandlerDeleteCurrency(p)
    \/ ServiceCreateCurrency(p, in)
    \/ ServiceGetCurrencyByCode(p)
    \/ ServiceGetAllCurrencies(p, in)
    \/ ServiceUpdateCurrency(p, in)
    \/ ServiceDeleteCurrency(p)
    \/ GetByCodeCacheGet(p)
    \/ GetByCodeRepo(p)
    \/ CacheCurrency(p)
    \/ GetAllCacheGet(p)
    \/ GetAllRepo(p)
    \/ GetAllCacheSet(p)
    \/ GetAllDirect(p)
    \/ GetCurrencyCount(p)
    \/ CreateRepo(p)
    \/ UpdateRepo(p)
    \/ DeleteGetByID(p)
    \/ DeleteRepo(p)
    \/ InvalidateDel(p)
    \/ InvalidateKeys(p)
    \/ InvalidateDelKeys(p)
    \/ Return(p)

Init ==
    /\ store = {SeedUSD}
    /\ nextId = 2
    /\ cache = EmptyCache
    /\ pc = [p \in Procs |-> "idle"]
    /\ req = [p \in Procs |-> IdleReq]
    /\ res = [p \in Procs |-> NoResponse]
    /\ nwrites = 0
    /\ prev = NoPrev
    /\ deleted = [c \in Codes |-> "no"]

\* Requests that vary the fields of a record, over one cached list.
FieldInputs ==
    [creates |-> CreateCurrencyRequests, updates |-> UpdateCurrencyRequests,
     users |-> Users, newCodes |-> Codes \cup {Empty},
     queries |-> {<<100, 0>>, <<101, 0>>},
     pages |-> {Absent}, limitParams |-> {QueryParam("int", 100)}]

\* Requests that vary the list queries, over records with default fields.
ListInputs ==
    [creates |-> {b \in CreateCurrencyRequests :
                    b.AmountDisplayFormat = "" /\ b.HtmlEncodedSymbol = ""
                    /\ b.Factor = 0},
     updates |-> {b \in UpdateCurrencyRequests : b.Description # ""},
     users |-> {}, newCodes |-> Codes,
     queries |-> Queries,
     pages |-> PageParams, limitParams |-> LimitParams]

\* Requests served one at a time.
Next == Step(1, FieldInputs) \/ Tick

Spec == Init /\ [][Next]_vars

NextList == Step(1, ListInputs) \/ Tick

SpecList == Init /\ [][NextList]_vars

\* Reads by code and updates of the service, served concurrently.
ConcInputs ==
    [creates |-> {}, updates |-> {}, users |-> {}, newCodes |-> {USD},
     queries |-> {}, pages |-> {}, limitParams |-> {}]

ConcStep(p) ==
    \/ ServiceGetCurrencyByCode(p)
    \/ ServiceUpdateCurrency(p, ConcInputs)
    \/ GetByCodeCacheGet(p)
    \/ GetByCodeRepo(p)
    \/ CacheCurrency(p)
    \/ UpdateRepo(p)
    \/ InvalidateDel(p)
    \/ InvalidateKeys(p)
    \/ Return(p)

NextConc == (\E p \in Procs : ConcStep(p)) \/ Tick

SpecConc == Init /\ [][NextConc]_vars

\* ------------------------------------------------------------ router
\* A path is the sequence of its segments; Param stands for ":code".
Param == ":code"
HealthPath == <<"health">>
CurrenciesPath == <<"api", "v1", "currencies">>
CurrencyPath(code) == <<"api", "v1", "currencies", code>>

Route(method, pattern, handlerName) ==
    [method |-> method, pattern |-> pattern, handler |-> handlerName]

\* A router with one route for each method of the currency handler.
AllRoutes ==
    {Route("GET", HealthPath, "Health"),
     Route("GET", CurrenciesPath, "GetCurrencies"),
     Route("GET", CurrencyPath(Param), "GetCurrencyByCode"),
     Route("POST", CurrenciesPath, "CreateCurrency"),
     Route("PUT", CurrencyPath(Param), "UpdateCurrency"),
     Route("DELETE", CurrencyPath(Param), "DeleteCurrency")}

\* setupRouter: the routes it registers.
Routes ==
    {Route("GET", HealthPath, "Health"),
     Route("GET", CurrenciesPath, "GetCurrencies")}

Match(pattern, path) ==
    /\ Len(pattern) = Len(path)
    /\ \A i \in 1..Len(pattern) :
        \/ pattern[i] = path[i]
        \/ pattern[i] = Param /\ path[i] # Empty

\* The handler the engine finds for a request line; without a route the
\* engine answers 404 itself.
Dispatch(method, path) ==
    LET found == {r \in Routes : r.method = method /\ Match(r.pattern, path)}
    IN IF found = {} THEN "NoRoute" ELSE (CHOOSE r \in found : TRUE).handler

Methods == {"GET", "POST", "PUT", "DELETE", "OPTIONS"}
Paths == {HealthPath, CurrenciesPath, CurrencyPath(USD), CurrencyPath(US),
          <<"currencies">>}

\* Requests that vary the request line, with the bodies and queries of
\* FieldInputs and a second page.
RouterInputs ==
    [creates |-> CreateCurrencyRequests, updates |-> UpdateCurrencyRequests,
     users |-> Users, newCodes |-> Codes,
     queries |-> {},
     pages |-> PageParams, limitParams |-> {Absent, QueryParam("int", 101)},
     methods |-> Methods, paths |-> Paths]

\* The engine serves one request: corsMiddleware answers OPTIONS itself,
\* any other method goes to the handler of its route.
ServeHTTP(p, in) ==
    /\ Idle(p)
    /\ \E method \in in.methods, path \in in.paths :
        LET c == [IdleReq EXCEPT !.method = method, !.path = path]
            h == Dispatch(method, path)
            Answered(name, status) ==
                /\ Go(p, Out("done", [c EXCEPT !.h = name],
                             Response(status, "", NoCurrency, <<>>)))
                /\ prev' = NoPrev
                /\ UNCHANGED <<store, nextId, cache, nwrites, deleted>>
        IN IF method = "OPTIONS" THEN Answered("cors", 204)
           ELSE CASE h = "Health" -> Answered("health", 200)
                  [] h = "GetCurrencies" -> GetCurrencies(p, in, c)
                  [] h = "GetCurrencyByCode" ->
                        GetCurrencyByCode(p, c)
                  [] h = "CreateCurrency" -> CreateCurrency(p, in, c)
                  [] h = "UpdateCurrency" ->
                        UpdateCurrency(p, in, c)
                  [] h = "DeleteCurrency" ->
                        DeleteCurrency(p, c)
                  [] OTHER -> Answered("noroute", 404)

RouterStep(p) ==
    \/ ServeHTTP(p, RouterInputs)
    \/ GetAllCacheGet(p)
    \/ GetAllRepo(p)
    \/ GetAllCacheSet(p)
    \/ GetAllDirect(p)
    \/ GetCurrencyCount(p)
    \/ Return(p)

\* Requests arriving at the router, served concurrently.
NextRouter == (\E p \in Procs : RouterStep(p)) \/ Tick

SpecRouter == Init /\ [][NextRouter]_vars

\* List requests that vary the limit parameter around its bounds.
PageInputs ==
    [creates |-> {}, updates |-> {}, users |-> {}, newCodes |-> {},
     queries |-> {},
     pages |-> PageParams,
     limitParams |-> {Absent, NotANumber} \cup
                     {QueryParam("int", n) : n \in {-1, 0, 1, 100, 101}}]

PageStep(p) ==
    \/ HandlerGetCurrencies(p, PageInputs)
    \/ GetAllCacheGet(p)
    \/ GetAllRepo(p)
    \/ GetAllCacheSet(p)
    \/ GetAllDirect(p)
    \/ GetCurrencyCount(p)
    \/ Return(p)

NextPage == PageStep(1) \/ Tick

SpecPage == Init /\ [][NextPage]_vars

\* Requests for one currency written in upper and in lower case, each
\* handed to the handler of its operation.
Request(method, path) == [IdleReq EXCEPT !.method = method, !.path = path]

CaseCodes == {USD, usd}

CaseInputs ==
    [creates |-> {[NoBody EXCEPT !.Code = raw, !.Description = "Dollar"] :
                    raw \in CaseCodes},
     updates |-> {[NoUpdate EXCEPT !.Description = "Euro"]},
     users |-> {}, newCodes |-> {}, queries |-> {},
     pages |-> {Absent}, limitParams |-> {Absent}]

CaseGet(p) ==
    \E raw \in CaseCodes :
        GetCurrencyByCode(p, Request("GET", CurrencyPath(raw)))

CaseCreate(p) ==
    \E body \in CaseInputs.creates :
        CreateCurrency(p, CaseInputs,
                       [Request("POST", CurrenciesPath) EXCEPT !.body = body])

CaseUpdate(p) ==
    \E raw \in CaseCodes :
        UpdateCurrency(p, CaseInputs, Request("PUT", CurrencyPath(raw)))

CaseDelete(p) ==
    \E raw \in CaseCodes :
        DeleteCurrency(p, Request("DELETE", CurrencyPath(raw)))

CaseStep(p) ==
    \/ CaseGet(p)
    \/ CaseCreate(p)
    \/ CaseUpdate(p)
    \/ CaseDelete(p)
    \/ GetCurrencies(p, CaseInputs, Request("GET", CurrenciesPath))
    \/ GetByCodeCacheGet(p)
    \/ GetByCodeRepo(p)
    \/ CacheCurrency(p)
    \/ GetAllCacheGet(p)
    \/ GetAllRepo(p)
    \/ GetAllCacheSet(p)
    \/ GetCurrencyCount(p)
    \/ CreateRepo(p)
    \/ UpdateRepo(p)
    \/ DeleteGetByID(p)
    \/ DeleteRepo(p)
    \/ InvalidateDel(p)
    \/ InvalidateKeys(p)
    \/ InvalidateDelKeys(p)
    \/ Return(p)

NextCase == CaseStep(1) \/ Tick

SpecCase == Init /\ [][NextCase]_vars

\* Reads through the handlers and updates of the service, served
\* concurrently; each read notes the rows of the table when it begins.
FreshInputs ==
    [creates |-> {}, updates |-> {}, users |-> {}, newCodes |-> {USD},
     queries |-> {}, pages |-> {Absent}, limitParams |-> {Absent}]

FreshGet(p) ==
    GetCurrencyByCode(p, [Request("GET", CurrencyPath(USD)) EXCEPT !.began = store])

FreshList(p) ==
    GetCurrencies(p, FreshInputs,
                  [Request("GET", CurrenciesPath) EXCEPT !.began = store])

FreshStep(p) ==
    \/ FreshGet(p)
    \/ FreshList(p)
    \/ ServiceUpdateCurrency(p, FreshInputs)
    \/ GetByCodeCacheGet(p)
    \/ GetByCodeRepo(p)
    \/ CacheCurrency(p)
    \/ GetAllCacheGet(p)
    \/ GetAllRepo(p)
    \/ GetAllCacheSet(p)
    \/ GetCurrencyCount(p)
    \/ UpdateRepo(p)
    \/ InvalidateDel(p)
    \/ InvalidateKeys(p)
    \/ InvalidateDelKeys(p)
    \/ Return(p)

NextFresh == (\E p \in Procs : FreshStep(p)) \/ Tick

SpecFresh == Init /\ [][NextFresh]_vars

\* Reads by code, updates and deletes of the service, served concurrently,
\* where a request that is under way goes on to its end and time does not
\* stand still while the cache holds an entry.
LiveProgress(p) ==
    \/ GetByCodeCacheGet(p)
    \/ GetByCodeRepo(p)
    \/ CacheCurrency(p)
    \/ UpdateRepo(p)
    \/ DeleteGetByID(p)
    \/ DeleteRepo(p)
    \/ InvalidateDel(p)
    \/ InvalidateKeys(p)
    \/ Return(p)

LiveStep(p) ==
    \/ ServiceGetCurrencyByCode(p)
    \/ ServiceUpdateCurrency(p, ConcInputs)
    \/ ServiceDeleteCurrency(p)
    \/ LiveProgress(p)

NextLive == (\E p \in Procs : LiveStep(p)) \/ Tick

SpecLive ==
    /\ Init /\ [][NextLive]_vars
    /\ WF_vars(Tick)
    /\ \A p \in Procs : WF_vars(LiveProgress(p))

\* Requests handed to the five handlers one at a time, with a cache that
\* answers every command.
CacheUp == [IdleReq EXCEPT !.cacheUp = TRUE]

CoherentInputs ==
    [creates |-> CreateCurrencyRequests,
     updates |-> UpdateCurrencyRequests,
     users |-> {}, newCodes |-> {}, queries |-> {},
     pages |-> PageParams, limitParams |-> {Absent, QueryParam("int", 1)}]

CoherentStep(p) ==
    \/ GetCurrencyByCode(p, CacheUp)
    \/ GetCurrencies(p, CoherentInputs, CacheUp)
    \/ CreateCurrency(p, CoherentInputs, CacheUp)
    \/ UpdateCurrency(p, CoherentInputs, CacheUp)
    \/ DeleteCurrency(p, CacheUp)
    \/ GetByCodeCacheGet(p)
    \/ GetByCodeRepo(p)
    \/ CacheCurrency(p)
    \/ GetAllCacheGet(p)
    \/ GetAllRepo(p)
    \/ GetAllCacheSet(p)
    \/ GetAllDirect(p)
    \/ GetCurrencyCount(p)
    \/ CreateRepo(p)
    \/ UpdateRepo(p)
    \/ DeleteGetByID(p)
    \/ DeleteRepo(p)
    \/ InvalidateDel(p)
    \/ InvalidateKeys(p)
    \/ InvalidateDelKeys(p)
    \/ Return(p)

NextCoherent == CoherentStep(1) \/ Tick

SpecCoherent == Init /\ [][NextCoherent]_vars

\* PUT requests on USD, each changing one field, served concurrently.
DescriptionOnly == [NoUpdate EXCEPT !.Description = "Euro"]
FactorOnly == [NoUpdate EXCEPT !.Factor = 1]

PutInputs ==
    [creates |-> {}, updates |-> {DescriptionOnly, FactorOnly},
     users |-> {}, newCodes |-> {}, queries |-> {},
     pages |-> {}, limitParams |-> {}]

PutStep(p) ==
    \/ UpdateCurrency(p, PutInputs, Request("PUT", CurrencyPath(USD)))
    \/ GetByCodeCacheGet(p)
    \/ GetByCodeRepo(p)
    \/ CacheCurrency(p)
    \/ UpdateRepo(p)
    \/ InvalidateDel(p)
    \/ InvalidateKeys(p)
    \/ Return(p)

NextPut == (\E p \in Procs : PutStep(p)) \/ Tick

SpecPut == Init /\ [][NextPut]_vars

\* Reads of the service, one at a time, over a cache whose values can be
\* replaced by values that are not JSON.
DecodeInputs ==
    [creates |-> {}, updates |-> {}, users |-> {}, newCodes |-> {},
     queries |-> {<<100, 0>>, <<50, 0>>},
     pages |-> {}, limitParams |-> {}]

DecodeStep(p) ==
    \/ ServiceGetCurrencyByCode(p)
    \/ ServiceGetAllCurrencies(p, DecodeInputs)
    \/ GetByCodeCacheGet(p)
    \/ GetByCodeRepo(p)
    \/ CacheCurrency(p)
    \/ GetAllCacheGet(p)
    \/ GetAllRepo(p)
    \/ GetAllCacheSet(p)
    \/ Return(p)

NextDecode == DecodeStep(1) \/ Tick \/ Corrupt

SpecDecode == Init /\ [][NextDecode]_vars

\* Calls of the repository alone, as a seeding job makes them.
NextRepo == RepositoryCreateBatch(1) \/ RepositoryDelete(1) \/ Return(1)

SpecRepo == Init /\ [][NextRepo]_vars

\* ================================================== cache invalidation
InvalidationOps == {"del", "keys", "delkeys"}

\* A write of the service has returned nil to its caller.
WriteReturned(p) ==
    /\ pc[p] = "done"
    /\ req[p].svc \in {"create", "update", "delete"}
    /\ res[p].err = ""

\* No entry for code c and no list entry is in the cache.
Invalidated(c) ==
    /\ CodeKey(c) \notin DOMAIN cache
    /\ \A k \in DOMAIN cache : ~IsListKey(k)

\* C1 as stated: when a write of the service returns success for the record
\* with code C, the cache holds no entry under "currency:code:C" and no
\* entry under a "currencies:all:" key.
C1_InvalidatedAfterEveryWrite ==
    \A p \in Procs : WriteReturned(p) => Invalidated(req[p].cur.Code)

\* C1: when a write of the service returns success for the record with code
\* C and each cache command of its invalidation (Del, Keys, Del) succeeded,
\* the cache holds no entry under "currency:code:C" and no entry under a
\* "currencies:all:" key; C is the code of the record the write carried.
C1_InvalidatedAfterWrite ==
    \A p \in Procs :
        WriteReturned(p) /\ req[p].failed \cap InvalidationOps = {}
            => Invalidated(req[p].cur.Code)

\* A delete returned after an invalidation that found list entries to drop.
C1_Witness ==
    \E p \in Procs :
        /\ WriteReturned(p) /\ req[p].svc = "delete"
        /\ req[p].failed \cap InvalidationOps = {}
        /\ Cardinality(req[p].keys) = 2
        /\ Invalidated(req[p].cur.Code)

\* ===================================================== read-through cache
\* Worker p has finished a GetCurrencyByCode of the code the previous
\* request fetched from the repository.
SecondRead(p) ==
    /\ pc[p] = "done"
    /\ req[p].svc = "get" /\ req[p].h \in {"none", "get"}
    /\ prev # NoPrev /\ req[p].code = prev.code
    /\ prev.age < CacheTimeout

FromCache(p) ==
    /\ req[p].hit /\ ~req[p].repo
    /\ res[p].err = "" /\ res[p].cur = prev.cur

\* C2 as stated: a GetCurrencyByCode(C) that immediately follows one that
\* missed the cache and fetched the record, within the cache timeout, is
\* answered from the cache with the same record and no repository call.
C2_SecondReadFromCacheAlways ==
    \A p \in Procs : SecondRead(p) => FromCache(p)

\* C2: a GetCurrencyByCode(C) that immediately follows one that missed the
\* cache and fetched the record, less than the cache timeout after it, is
\* answered from the cache with the same record and no repository call,
\* provided the first call's cache Set and the second call's cache Get
\* both succeeded.
C2_SecondReadFromCache ==
    \A p \in Procs :
        SecondRead(p) /\ "set" \notin prev.failed /\ "get" \notin req[p].failed
            => FromCache(p)

\* The second read came 14 minutes after the first and was a hit.
C2_Witness ==
    \E p \in Procs :
        /\ SecondRead(p) /\ prev.age = CacheTimeout - 1
        /\ "set" \notin prev.failed /\ "get" \notin req[p].failed
        /\ FromCache(p) /\ req[p].h = "get" /\ res[p].status = 200

FromRowOrRequest(row, new, u) ==
    /\ new.ID = row.ID /\ new.Code = row.Code /\ new.CreatedBy = row.CreatedBy
    /\ new.Description \in {row.Description, u.Description}
    /\ new.AmountDisplayFormat \in {row.AmountDisplayFormat, u.AmountDisplayFormat}
    /\ new.HtmlEncodedSymbol \in {row.HtmlEncodedSymbol, u.HtmlEncodedSymbol}
    /\ new.Factor \in {row.Factor, u.Factor}

\* C4: each field value a PUT is about to write comes from the request or
\* from the row as the store holds it, and the id a DELETE passes on is the
\* id of the row the store holds under the code; no cached value gets
\* into the store.
C4_CacheNeverFeedsStore ==
    \A p \in Procs :
        /\ pc[p] = "update_repo" /\ req[p].h = "update" =>
                \A row \in RowsById(store, req[p].cur.ID) :
                    FromRowOrRequest(row, Assign(row, req[p].cur), req[p].upd)
        /\ pc[p] = "delete_get" /\ req[p].h = "delete" =>
                req[p].id \in {r.ID : r \in RowsByCode(store, req[p].code)}

\* ============================================================ delete
\* Worker p has answered a GET by code, or a first page, with status 200.
AnsweredGet(p, c) ==
    /\ pc[p] = "done" /\ req[p].h = "get" /\ req[p].svc = "get"
    /\ req[p].code = c

AnsweredFirstPage(p) ==
    /\ pc[p] = "done" /\ req[p].h = "list" /\ req[p].page = 1
    /\ res[p].status = 200

Listed(p, c) == \E i \in 1..Len(res[p].list) : res[p].list[i].Code = c

\* C5 as stated: once a delete of the record with code C has returned
\* success, and until a write stores a record with code C again, a GET by
\* code C is answered 404 and a first page does not list C.
C5_GoneAfterEveryDelete ==
    \A p \in Procs : \A c \in Codes :
        deleted[c] # "no" =>
            /\ AnsweredGet(p, c) => res[p].status = 404
            /\ AnsweredFirstPage(p) => ~Listed(p, c)

\* C5: once a delete of the record with code C has returned success after
\* an invalidation whose cache commands all succeeded, and until a write
\* stores a record with code C again, a GET by code C is answered 404 and
\* a first page does not list C.
C5_GoneAfterDelete ==
    \A p \in Procs : \A c \in Codes :
        deleted[c] = "clean" =>
            /\ AnsweredGet(p, c) => res[p].status = 404
            /\ AnsweredFirstPage(p) => ~Listed(p, c)

\* A GET by code is answered 404 after a delete whose invalidation removed
\* cached list entries.
C5_Witness ==
    \E p \in Procs :
        /\ deleted[USD] = "clean" /\ AnsweredGet(p, USD)
        /\ res[p].status = 404 /\ res[p].err = "not found"
        /\ req[p].repo /\ "get" \notin req[p].failed

\* ===================================================== partial update
OnlyDescription(u) ==
    /\ u.Description # "" /\ u.AmountDisplayFormat = ""
    /\ u.HtmlEncodedSymbol = "" /\ u.Factor = 0

\* C6: a PUT that supplies only description and is answered 200 leaves
\* the id, code, factor, amount_display_format and html_encoded_symbol of
\* every row as they were in the store before the update.
C6_PartialUpdateKeepsOtherFields ==
    \A p \in Procs :
        /\ pc[p] = "done" /\ req[p].h = "update" /\ req[p].svc = "update"
        /\ res[p].status = 200 /\ OnlyDescription(req[p].upd)
        => \A o \in req[p].old : \E n \in store :
                /\ n.ID = o.ID /\ n.Code = o.Code /\ n.Factor = o.Factor
                /\ n.AmountDisplayFormat = o.AmountDisplayFormat
                /\ n.HtmlEncodedSymbol = o.HtmlEncodedSymbol

\* ============================================================ create
\* C7: the row a successful CreateCurrency stores has factor 100 where the
\* input had 0, format "###,###.##" where the input had none, the
\* placeholder creator where the input had none, and every other value as
\* the input gave it.
C7_CreateDefaults ==
    \A p \in Procs :
        WriteReturned(p) /\ req[p].svc = "create" =>
            \E row \in store :
                LET a == req[p].arg
                IN /\ row.ID = req[p].cur.ID
                   /\ row.Code = a.Code /\ row.Description = a.Description
                   /\ row.HtmlEncodedSymbol = a.HtmlEncodedSymbol
                   /\ row.Factor = IF a.Factor = 0 THEN 100 ELSE a.Factor
                   /\ row.AmountDisplayFormat =
                        IF a.AmountDisplayFormat = "" THEN "###,###.##"
                        ELSE a.AmountDisplayFormat
                   /\ row.CreatedBy =
                        IF a.CreatedBy = NilUser
                        THEN "1609b0e1-30c4-402c-a76e-8f5b4d6cfc24"
                        ELSE a.CreatedBy

\* A create with no factor, no format and no creator has stored its row.
C7_Witness ==
    \E p \in Procs :
        /\ WriteReturned(p) /\ req[p].svc = "create"
        /\ req[p].arg.Factor = 0 /\ req[p].arg.AmountDisplayFormat = ""
        /\ req[p].arg.CreatedBy = NilUser
        /\ \E row \in store :
            /\ row.ID = req[p].cur.ID /\ row.Factor = 100
            /\ row.AmountDisplayFormat = "###,###.##"

\* C8: every row of the store has a positive factor.
C8_FactorPositive == \A r \in store : r.Factor > 0

\* ======================================================== unique code
UniqueCodes == \A a, b \in store : a.Code = b.Code => a = b

\* C9: no two rows share a code; a create whose code is in the store fails
\* and leaves the store as it was, and where the store answered the
\* insert the failure is the duplicate-key conflict, 409 for a POST.
C9_DuplicateCreate ==
    /\ UniqueCodes
    /\ \A p \in Procs :
        /\ pc[p] = "done" /\ req[p].svc = "create"
        /\ \E o \in req[p].old : o.Code = req[p].cur.Code
        => /\ res[p].err # "" /\ store = req[p].old
           /\ res[p].err # "io error" =>
                /\ res[p].err = "duplicate key"
                /\ req[p].h = "create" => res[p].status = 409

\* A POST of a code the store holds has been answered 409.
C9_Witness ==
    \E p \in Procs :
        /\ pc[p] = "done" /\ req[p].svc = "create" /\ req[p].h = "create"
        /\ \E o \in req[p].old : o.Code = req[p].cur.Code
        /\ res[p].status = 409 /\ store = req[p].old

\* ============================================================= batch
\* Some insert of the batch fails: its statement fails, or its code is in
\* the table or earlier in the batch.
SomeInsertFails(old, curs, io) ==
    \/ io > 0
    \/ \E i \in 1..Len(curs) :
        \/ \E r \in old : r.Code = curs[i].Code
        \/ \E j \in 1..(i - 1) : curs[j].Code = curs[i].Code

\* C10: if an insert of the batch fails, CreateBatch returns an error and
\* the store is as it was before the call; if none fails, it returns nil
\* and the store has gained one row for each record of the batch.
C10_BatchAllOrNothing ==
    \A p \in Procs :
        pc[p] = "done" /\ req[p].svc = "batch" =>
            LET curs == req[p].list
                old == req[p].old
            IN IF SomeInsertFails(old, curs, req[p].id)
               THEN res[p].err # "" /\ store = old
               ELSE /\ res[p].err = "" /\ old \subseteq store
                    /\ Cardinality(store) = Cardinality(old) + Len(curs)
                    /\ \A i \in 1..Len(curs) : \E row \in store \ old :
                        /\ row.Code = curs[i].Code
                        /\ row.Description = curs[i].Description

\* A batch of three whose third record repeats a stored code has failed
\* and left none of its records.
C10_Witness ==
    \E p \in Procs :
        /\ pc[p] = "done" /\ req[p].svc = "batch" /\ req[p].id = 0
        /\ Len(req[p].list) = 3
        /\ \E r \in req[p].old : r.Code = req[p].list[3].Code
        /\ \A i \in 1..2 : \A r \in req[p].old : r.Code # req[p].list[i].Code
        /\ req[p].list[1].Code # req[p].list[2].Code
        /\ res[p].err = "duplicate key" /\ store = req[p].old

\* ==================================================== cache failures
\* Worker p has an answer from GetCurrencyByCode / GetAllCurrencies.
ReadByCodeReturned(p) ==
    pc[p] = "done" /\ req[p].svc = "get" /\ req[p].h \in {"none", "get"}

ReadAllReturned(p) ==
    /\ req[p].svc = "list"
    /\ \/ pc[p] = "done" /\ req[p].h = "none"
       \/ pc[p] = "count"
       \/ pc[p] = "done" /\ req[p].h = "list" /\ res[p].status = 500

CacheFailed(p) == req[p].failed \cap {"get", "set"} # {}

\* C11: a GetCurrencyByCode or GetAllCurrencies one of whose cache commands
\* failed has called the repository and returns what the repository
\* returns for its arguments: the row or the not-found error, the page of
\* rows, or the error of the failed statement.
C11_CacheFailureNotSurfaced ==
    \A p \in Procs :
        /\ ReadByCodeReturned(p) /\ CacheFailed(p) =>
            /\ req[p].repo
            /\ \/ res[p].err = "io error" /\ res[p].cur = NoCurrency
               \/ /\ res[p].err = RepoGetByCode(store, req[p].code).err
                  /\ res[p].cur = RepoGetByCode(store, req[p].code).cur
        /\ ReadAllReturned(p) /\ CacheFailed(p) =>
            /\ req[p].repo
            /\ \/ res[p].err = "io error"
               \/ /\ res[p].err = ""
                  /\ LET rows == IF pc[p] = "count" THEN req[p].list
                                 ELSE res[p].list
                     IN rows = RepoGetAll(store, req[p].limit, req[p].offset)

\* A read by code could not reach the cache, which holds another record
\* under the key than the store, and returned the store's row.
C11_Witness ==
    \E p \in Procs :
        /\ ReadByCodeReturned(p) /\ "get" \in req[p].failed
        /\ CodeKey(req[p].code) \in DOMAIN cache
        /\ res[p].err = "" /\ res[p].cur \in store
        /\ Unmarshal(cache[CodeKey(req[p].code)].val) # res[p].cur

\* ============================================ invalidation failures
\* The store is what the repository call of worker p's write made of it.
Committed(p) ==
    LET old == req[p].old
        cur == req[p].cur
    IN CASE req[p].svc = "create" -> cur \notin old /\ store = old \cup {cur}
         [] req[p].svc = "update" -> store = RepoUpdate(old, cur).rows
         [] req[p].svc = "delete" ->
                /\ RowsById(old, req[p].id) # {}
                /\ store = old \ RowsById(old, req[p].id)
         [] OTHER -> FALSE

\* C12: a write whose repository call succeeded returns success, with the
\* change in the store, whichever of the invalidation's cache commands
\* failed.
C12_InvalidationFailureIgnored ==
    \A p \in Procs :
        /\ pc[p] \in {"inv_del", "inv_keys", "inv_list"} => Committed(p)
        /\ pc[p] = "done" /\ req[p].failed \cap InvalidationOps # {} =>
            /\ res[p].err = "" /\ Committed(p)
            /\ req[p].h # "none" => res[p].status \in {200, 201}

\* A delete has returned success although the Del of the record's key and
\* the Keys command failed; the row is gone and its entry is still cached.
C12_Witness ==
    \E p \in Procs :
        /\ pc[p] = "done" /\ req[p].svc = "delete" /\ req[p].h = "delete"
        /\ {"del", "keys"} \subseteq req[p].failed
        /\ res[p].status = 200 /\ Committed(p)
        /\ CodeKey(req[p].cur.Code) \in DOMAIN cache

\* ========================================================= validation
MissingRequired(cur) == cur.Code = Empty \/ cur.Description = ""

\* Worker p enters CreateCurrency or UpdateCurrency with a record that
\* lacks its code or its description.
EntersInvalidWrite(p) ==
    /\ pc'[p] # pc[p] /\ pc'[p] # "idle"
    /\ req[p].svc \notin {"create", "update"}
    /\ req'[p].svc \in {"create", "update"}
    /\ MissingRequired(req'[p].cur)

\* C13: CreateCurrency and UpdateCurrency called with an empty code or an
\* empty description return the validation error at once: no repository
\* call and no cache command is made, the store and the cache stay as
\* they were.
C13_ValidationBeforeStore ==
    [][\A p \in Procs :
        EntersInvalidWrite(p) =>
            /\ pc'[p] = "done" /\ res'[p].err = "validation"
            /\ req'[p].touched = req[p].touched
            /\ store' = store /\ cache' = cache /\ nextId' = nextId]_vars

\* UpdateCurrency has rejected a record without description while the
\* cache held entries.
C13_Witness ==
    \E p \in Procs :
        /\ pc[p] = "done" /\ req[p].svc = "update" /\ req[p].h = "none"
        /\ req[p].cur.Description = "" /\ req[p].cur.Code # Empty
        /\ res[p].err = "validation" /\ req[p].touched = {}
        /\ DOMAIN cache # {} /\ RowsById(store, req[p].cur.ID) # {}

\* ================================================ delete of an absent id
\* C14: when the fetch by id of DeleteCurrency fails (no row has the id,
\* or the statement fails), DeleteCurrency returns an error at once, with
\* the store and the cache as they were; Delete and the invalidation are
\* reached only with the fetched row.
C14_DeleteAbortsOnFailedFetch ==
    [][\A p \in Procs :
        pc[p] = "delete_get" /\ pc'[p] # pc[p] =>
            IF pc'[p] = "delete_repo"
            THEN /\ RowsById(store, req[p].id) = {req'[p].cur}
                 /\ store' = store /\ cache' = cache
            ELSE /\ pc'[p] = "done" /\ res'[p].err \in {"not found", "io error"}
                 /\ req'[p].touched = req[p].touched
                 /\ store' = store /\ cache' = cache]_vars

\* DeleteCurrency of an id no row has returned the error; nothing was
\* deleted and the cached entries are still there.
C14_Witness ==
    \E p \in Procs :
        /\ pc[p] = "done" /\ req[p].svc = "delete" /\ req[p].h = "none"
        /\ RowsById(store, req[p].id) = {} /\ res[p].err = "not found"
        /\ req[p].touched = {} /\ store # {}
        /\ CodeKey(USD) \in DOMAIN cache /\ CacheKeys(cache) # {}

\* ================================================== negative results
\* C15: a GetCurrencyByCode(C) that the repository answers with not found
\* returns that error (404 from the handler) and issues no cache Set;
\* every entry under a "currency:code:" key is a record with that code
\* and an id, so a GetCurrencyByCode(C) that finds no entry reads the
\* store and returns the row a create has stored since.
C15_NoNegativeCaching ==
    /\ \A k \in DOMAIN cache :
        ~IsListKey(k) =>
            /\ Unmarshal(cache[k].val).Code = k[2]
            /\ Unmarshal(cache[k].val).ID # NilUUID
    /\ \A p \in Procs :
        /\ req[p].svc = "get" /\ pc[p] = "done" /\ res[p].err = "not found" =>
            /\ <<"set", CodeKey(req[p].code)>> \notin req[p].touched
            /\ res[p].cur = NoCurrency
            /\ req[p].h = "get" => res[p].status = 404
        /\ ReadByCodeReturned(p) /\ req[p].repo /\ res[p].err # "io error" =>
            /\ res[p].err = RepoGetByCode(store, req[p].code).err
            /\ res[p].cur = RepoGetByCode(store, req[p].code).cur

\* GET EUR has missed the cache and been answered 404 from the store;
\* the cache holds no entry for EUR.
C15_Witness ==
    \E p \in Procs :
        /\ ReadByCodeReturned(p) /\ req[p].code = EUR /\ req[p].h = "get"
        /\ req[p].repo /\ req[p].failed = {}
        /\ res[p].err = "not found" /\ res[p].status = 404
        /\ RowsByCode(store, EUR) = {}
        /\ CodeKey(EUR) \notin DOMAIN cache

\* ====================================================== HTTP statuses
\* The status the kind of a service error stands for.
StatusOfKind(err) ==
    CASE err = "validation" -> 400
      [] err = "not found" -> 404
      [] err = "duplicate key" -> 409
      [] OTHER -> 500

\* C16: the response of a handler to a failed service call has the status
\* of the error's kind: 400 for validation, 404 for not found, 409 for a
\* conflict, 500 for a failure of the store.
C16_StatusByErrorKind ==
    \A p \in Procs :
        pc[p] = "done" /\ req[p].h # "none" /\ res[p].err # ""
            => res[p].status = StatusOfKind(res[p].err)

\* ============================================== update of an absent id
\* C17: an UpdateCurrency whose record has the id of no row returns an
\* error and does not reach the invalidation.
C17_UpdateOfAbsentIdFails ==
    \A p \in Procs :
        /\ req[p].svc = "update"
        /\ pc[p] \in {"inv_del", "inv_keys", "inv_list", "done"}
        /\ RowsById(req[p].old, req[p].cur.ID) = {}
        => /\ pc[p] = "done" /\ res[p].err # ""
           /\ req[p].failed \cap InvalidationOps = {}
           /\ \A t \in req[p].touched : t[1] # "del"

\* ============================================================= expiry
\* The entry a fetch of code c wrote age minutes ago is in the cache with
\* 15 - age minutes to live and the fetched record, or gone at 15.
EntryAtAge(c, cur, age) ==
    IF age < 15
    THEN /\ CodeKey(c) \in DOMAIN cache
         /\ cache[CodeKey(c)] = [val |-> Marshal(cur), ttl |-> 15 - age]
    ELSE CodeKey(c) \notin DOMAIN cache

\* No request under way has written the entry of code c again.
NotSetAgain(c) ==
    \A p \in Procs :
        <<"set", CodeKey(c)>> \in req[p].touched => "set" \in req[p].failed

\* The entries follow the clock of the reads that wrote them.
EntriesAgeWithClock ==
    /\ prev # NoPrev /\ "set" \notin prev.failed /\ NotSetAgain(prev.code)
        => EntryAtAge(prev.code, prev.cur, prev.age)
    /\ \A p \in Procs :
        pc[p] = "done" /\ FetchedByCode(req[p], res[p])
        /\ "set" \notin req[p].failed
            => EntryAtAge(req[p].code, req[p].cur, req[p].age)

\* C18: an entry is written only by a Set and then has 15 minutes to live;
\* a Get leaves every entry's value and time to live as they are; the
\* passing of d minutes takes d minutes off every entry and removes those
\* that had no more; so an entry is gone 15 minutes after its Set and not
\* before, however often it was hit.
C18_FixedExpiry ==
    [][/\ EntriesAgeWithClock
       /\ \A k \in DOMAIN cache' :
            pc' # pc /\ (k \notin DOMAIN cache \/ cache'[k] # cache[k]) =>
                /\ cache'[k].ttl = 15
                /\ \E p \in Procs : /\ pc[p] \in {"get_set", "list_set"}
                                    /\ pc'[p] # pc[p]
       /\ \A p \in Procs :
            pc[p] \in {"get_cache", "list_cache"} /\ pc'[p] # pc[p]
                => cache' = cache
       /\ pc' = pc /\ cache' # cache =>
            \E d \in 1..15 :
                cache' = [k \in {x \in DOMAIN cache : cache[x].ttl > d} |->
                            [val |-> cache[k].val, ttl |-> cache[k].ttl - d]]
      ]_vars

\* A read has hit the entry 14 minutes after the fetch that wrote it; the
\* entry still has its one minute to live, next to a list entry.
C18_Witness ==
    \E p \in Procs :
        /\ pc[p] = "done" /\ req[p].svc = "get" /\ req[p].hit
        /\ prev # NoPrev /\ prev.code = req[p].code /\ prev.age = 14
        /\ CodeKey(prev.code) \in DOMAIN cache
        /\ cache[CodeKey(prev.code)].ttl = 1
        /\ res[p].cur = prev.cur
        /\ CacheKeys(cache) # {}

\* ================================================ stale repopulation
\* Worker p's step is the cache Get of a GetCurrencyByCode that finds an
\* entry.
GetFindsEntry(p) ==
    /\ pc[p] = "get_cache" /\ pc'[p] # pc[p]
    /\ CodeKey(req[p].code) \in DOMAIN cache
    /\ "get" \notin req'[p].failed

\* The step is one that may end the entry under key k: time passing, the
\* Del of a write to the key's code, or the Set of a read of that code
\* that did not take the record from the cache.
MayEndEntry(k) ==
    \/ pc' = pc
    \/ \E p \in Procs :
        /\ pc'[p] # pc[p]
        /\ \/ pc[p] = "inv_del" /\ k = CodeKey(req[p].cur.Code)
           \/ pc[p] = "get_set" /\ k = CodeKey(req[p].code)

\* C19: whatever the store holds, a GetCurrencyByCode(C) whose Get finds
\* an entry returns the entry's record without a repository call, and the
\* entry stays as it is until it expires, a write to C deletes it, or a
\* read of C that went to the repository sets it again; so an entry that a
\* read fetched before a write committed and set after the write's
\* invalidation is served after the write has returned.
C19_StaleEntryServed ==
    [][/\ \A p \in Procs :
            GetFindsEntry(p) =>
                /\ pc'[p] = "done" /\ res'[p].err = ""
                /\ res'[p].cur = Unmarshal(cache[CodeKey(req[p].code)].val)
                /\ ~req'[p].repo /\ store' = store /\ cache' = cache
       /\ \A k \in DOMAIN cache :
            (k \notin DOMAIN cache' \/ cache'[k] # cache[k]) => MayEndEntry(k)
      ]_vars

\* An update of USD has returned after an invalidation without failure;
\* the cache holds for USD the row as it was before the update, set by a
\* read that ran beside the update, and a read has been answered with it.
C19_Witness ==
    \E r \in Procs : \E w \in Procs \ {r} :
        /\ pc[w] = "done" /\ req[w].svc = "update" /\ res[w].err = ""
        /\ req[w].failed = {} /\ req[w].cur.Code = USD
        /\ <<"del", CodeKey(USD)>> \in req[w].touched
        /\ pc[r] = "done" /\ req[r].svc = "get" /\ req[r].code = USD
        /\ req[r].hit /\ req[r].failed = {}
        /\ res[r].cur \in req[w].old /\ res[r].cur \notin store
        /\ RowsByCode(store, USD) # {}
        /\ CodeKey(USD) \in DOMAIN cache
        /\ Unmarshal(cache[CodeKey(USD)].val) = res[r].cur
        /\ prev.code = USD /\ prev.cur = res[r].cur /\ prev.failed = {}

\* ============================================================ routes
\* Worker p takes a request in this step.
Accepts(p) == Idle(p) /\ pc'[p] # "idle"

\* The request worker p took was for a single currency.
ForOneCurrency(rq) ==
    Len(rq.path) = 4 /\ SubSeq(rq.path, 1, 3) = CurrenciesPath /\ rq.path[4] # Empty

ListAccepted(p) ==
    /\ Accepts(p) /\ req'[p].h = "list"
    /\ req'[p].svc = "list" /\ pc'[p] \in {"list_cache", "list_direct"}

\* C21 as stated: the limit passed to the service is 50 without an integer
\* parameter, and otherwise the requested value clamped into [1,100], a
\* value below 1 becoming 1.
C21_LimitClampedFromOne ==
    [][\A p \in Procs :
        ListAccepted(p) =>
            LET q == req'[p].query.limit IN
            req'[p].limit = IF q.kind # "int" THEN 50
                            ELSE IF q.n > 100 THEN 100
                            ELSE IF q.n < 1 THEN 1 ELSE q.n
      ]_vars

\* C21, amended: the limit passed to the service is 50 when the parameter
\* is absent or not an integer, 100 when the requested value is above 100,
\* 10 when it is below 1, and the requested value otherwise.
C21_LimitDefaultAndBounds ==
    [][\A p \in Procs :
        /\ Accepts(p) /\ req'[p].h = "list" => ListAccepted(p)
        /\ ListAccepted(p) =>
            LET q == req'[p].query.limit IN
            /\ q.kind # "int" => req'[p].limit = 50
            /\ q.kind = "int" /\ q.n > 100 => req'[p].limit = 100
            /\ q.kind = "int" /\ q.n < 1 => req'[p].limit = 10
            /\ q.kind = "int" /\ q.n \in 1..100 => req'[p].limit = q.n
      ]_vars

\* A list request with limit=0 has been answered with a limit of 10, one
\* with limit=abc with a limit of 50.
C21_Witness ==
    \E p \in Procs :
        /\ pc[p] = "done" /\ req[p].h = "list" /\ res[p].status = 200
        /\ \/ req[p].query.limit = QueryParam("int", 0) /\ req[p].limit = 10
           \/ req[p].query.limit = QueryParam("int", -1) /\ req[p].limit = 10
        /\ res[p].limit = 10

\* ==================================================== case of a code
UpperLetters == {"D", "E", "R", "S", "U"}
IsUpper(code) == \A i \in 1..Len(code) : code[i] \in UpperLetters

\* The code the request of worker p arrived with.
RawCode(rq) == IF rq.h = "create" THEN rq.body.Code ELSE rq.path[4]

\* C22: a request for "usd" or "USD" works on code "USD": the record it
\* creates is stored and returned with code "USD", the single-record key
\* it reads, sets or deletes is the key of "USD", and the table and the
\* single-record keys of the cache hold uppercase codes only.
C22_CodesUppercased ==
    /\ \A row \in store : IsUpper(row.Code)
    /\ \A k \in DOMAIN cache : ~IsListKey(k) => k = CodeKey(USD)
    /\ \A p \in Procs :
        pc[p] # "idle" /\ req[p].h \in {"get", "create", "update", "delete"} =>
            /\ RawCode(req[p]) \in {usd, USD}
            /\ req[p].h = "create" => req[p].cur.Code = USD
            /\ req[p].h # "create" => req[p].code = USD
            /\ \A t \in req[p].touched :
                ~IsListKey(t[2]) => t[2] = CodeKey(USD)
            /\ pc[p] = "done" /\ res[p].status \in {200, 201}
               /\ res[p].cur # NoCurrency => res[p].cur.Code = USD
            /\ pc[p] = "done" /\ req[p].h = "create" /\ res[p].status = 201 =>
                    \E row \in store : row.Code = USD /\ row.ID = res[p].cur.ID

\* GET .../usd has been answered from the entry "currency:code:USD" with
\* the row of USD.
C22_Witness ==
    \E p \in Procs :
        /\ pc[p] = "done" /\ req[p].h = "get" /\ RawCode(req[p]) = usd
        /\ req[p].hit /\ res[p].status = 200 /\ res[p].cur \in store
        /\ res[p].cur.Code = USD
        /\ DOMAIN cache = {CodeKey(USD)}

\* POST with code "usd" has been answered 201 and the table holds the new
\* row under code "USD".
C22_CreateWitness ==
    \E p \in Procs :
        /\ pc[p] = "done" /\ req[p].h = "create" /\ req[p].body.Code = usd
        /\ res[p].status = 201 /\ res[p].cur \in store /\ res[p].cur.Code = USD

\* ================================================== unbounded lists
\* C23: a GetAllCurrencies with offset 0 and a limit of 0 or less, which
\* the repository answers with all rows, issues no cache command, and no
\* entry is kept under a "currencies:all:" key with such a limit.
C23_UnboundedListNotCached ==
    /\ \A p \in Procs :
        req[p].svc = "list" /\ req[p].offset = 0 /\ req[p].limit <= 0 =>
            req[p].touched = {} /\ ~req[p].hit
    /\ \A k \in DOMAIN cache : IsListKey(k) => k[2] > 0

\* ================================================ reads after a write
\* Record x is what row y was before a write: the same row, different,
\* with every field either y's or still the seeded one (the updates of
\* SpecFresh move fields away from their seeded values and never back).
Predates(x, y) ==
    /\ x.ID = y.ID /\ x # y
    /\ x.Description \in {y.Description, SeedUSD.Description}
    /\ x.AmountDisplayFormat \in {y.AmountDisplayFormat, SeedUSD.AmountDisplayFormat}
    /\ x.HtmlEncodedSymbol \in {y.HtmlEncodedSymbol, SeedUSD.HtmlEncodedSymbol}
    /\ x.Factor \in {y.Factor, SeedUSD.Factor}

\* Worker p's step is a cache Set of a read that succeeds.
SetsEntry(p, label) ==
    pc[p] = label /\ pc'[p] # label /\ "set" \notin req'[p].failed

\* C24: the record a GetCurrencyByCode sets, and every record of a list a
\* GetAllCurrencies sets, is not an earlier state of a row the table held
\* when the read began: a write committed before the read began is in
\* what the read caches.
C24_ReadAfterWriteSetsFresh ==
    [][\A p \in Procs :
        /\ SetsEntry(p, "get_set") =>
            LET v == Unmarshal(cache'[CodeKey(req[p].code)].val)
            IN \A y \in req[p].began : ~Predates(v, y)
        /\ SetsEntry(p, "list_set") =>
            LET l == UnmarshalList(cache'[ListKey(req[p].limit, req[p].offset)].val)
            IN \A i \in 1..Len(l) : \A y \in req[p].began : ~Predates(l[i], y)
      ]_vars

\* A read of USD that began after an update of USD had committed has set
\* the updated row, while the update is still invalidating.
C24_Witness ==
    \E r \in Procs : \E w \in Procs \ {r} :
        /\ pc[w] \in {"inv_del", "inv_keys", "inv_list"} /\ req[w].svc = "update"
        /\ SeedUSD \in req[w].old /\ SeedUSD \notin store
        /\ pc[r] = "done" /\ req[r].h = "get" /\ req[r].began = store
        /\ <<"set", CodeKey(USD)>> \in req[r].touched /\ req[r].failed = {}
        /\ CodeKey(USD) \in DOMAIN cache
        /\ Unmarshal(cache[CodeKey(USD)].val) \in store

\* ================================================ bounded staleness
\* A GetCurrencyByCode that has returned without a failure of the store
\* returned what the table holds for its code: the row, or "not found".
ReturnedCurrent(p) ==
    pc[p] = "done" /\ req[p].svc = "get" /\ res[p].err # "io error" =>
        IF RowsByCode(store, req[p].code) = {}
        THEN res[p].err = "not found" /\ res[p].cur = NoCurrency
        ELSE res[p].err = "" /\ res[p].cur \in RowsByCode(store, req[p].code)

\* C25: no entry is in the cache 15 minutes after it was set, and once
\* the writes have stopped, with requests running to their end and time
\* advancing, from some moment on every GetCurrencyByCode returns what
\* the table holds, whether the stale entry came from a race with a write
\* or from an invalidation that failed.
C25_StalenessBounded ==
    /\ [](\A k \in DOMAIN cache : cache[k].ttl \in 1..CacheTimeout)
    /\ <>[](\A p \in Procs : ReturnedCurrent(p))

\* After an update whose Del failed, a read has been answered from the
\* entry of the row as it was before the update.
C25_Witness ==
    \E r \in Procs :
        /\ pc[r] = "done" /\ req[r].svc = "get" /\ req[r].hit
        /\ res[r].err = "" /\ res[r].cur \notin store
        /\ \A w \in Procs : pc[w] \in {"idle", "done"}
        /\ nwrites = MaxWrites

\* ================================================== cache coherence
\* The entry under key k is a snapshot of what the table holds for k.
SnapshotOfStore(k) ==
    IF IsListKey(k)
    THEN UnmarshalList(cache[k].val) = RepoGetAll(store, k[2], k[3])
    ELSE /\ Unmarshal(cache[k].val) \in store
         /\ Unmarshal(cache[k].val).Code = k[2]

\* C26: with requests to the handlers served one at a time and a cache
\* that answers every command, whenever no request is under way every
\* entry of the cache is a snapshot of what the table holds for its key.
C26_CoherentBetweenRequests ==
    (\A p \in Procs : pc[p] \in {"idle", "done"}) =>
        \A k \in DOMAIN cache : SnapshotOfStore(k)

\* An update through the handler has been answered 200 after a list and
\* the record had been cached; the cache holds the record's entry no more
\* and the table holds the updated row.
C26_Witness ==
    \E p \in Procs :
        /\ pc[p] = "done" /\ req[p].h = "update" /\ res[p].status = 200
        /\ req[p].hit /\ res[p].cur \in store /\ SeedUSD \notin store
        /\ <<"del", CodeKey(USD)>> \in req[p].touched
        /\ req[p].keys # {}
        /\ DOMAIN cache = {}

\* ============================================ update of a record's code
\* C27: when an UpdateCurrency has returned success, with every cache
\* command of its invalidation answered, the cache holds no entry of the
\* row as it was before the update under the code the row had then, also
\* when the update gave the row another code.
C27_UpdateInvalidatesOldCode ==
    \A p \in Procs :
        /\ pc[p] = "done" /\ req[p].svc = "update" /\ res[p].err = ""
        /\ req[p].failed = {}
        => \A old \in RowsById(req[p].old, req[p].cur.ID) :
            \/ CodeKey(old.Code) \notin DOMAIN cache
            \/ Unmarshal(cache[CodeKey(old.Code)].val) # old

\* ================================================ concurrent updates
\* Worker p's PUT with this body has been answered 200, with every cache
\* command it issued answered.
PutSucceeded(p, body) ==
    /\ pc[p] = "done" /\ req[p].h = "update" /\ req[p].upd = body
    /\ res[p].status = 200 /\ req[p].failed = {}

\* C28: when a PUT of USD that changes only the description and a PUT of
\* USD that changes only the factor have both been answered 200, the row
\* of USD carries the new description and the new factor.
C28_NoLostUpdate ==
    \A a \in Procs : \A b \in Procs \ {a} :
        PutSucceeded(a, DescriptionOnly) /\ PutSucceeded(b, FactorOnly) =>
            \E row \in RowsByCode(store, USD) :
                row.Description = "Euro" /\ row.Factor = 1

\* ============================================== undecodable entries
\* Worker p's step is a cache Get, answered, at label, that finds a value
\* under key that does not decode.
GetsGarbage(p, label, key) ==
    /\ pc[p] = label /\ pc'[p] # label
    /\ "get" \notin req'[p].failed
    /\ key \in DOMAIN cache /\ cache[key].val = Garbage

\* Worker p's step is the cache Set, answered, of a read that had found a
\* value that does not decode.
SetsAfterGarbage(p, label) ==
    /\ pc[p] = label /\ pc'[p] # label
    /\ "decode" \in req[p].failed /\ "set" \notin req'[p].failed

\* C29: a read whose Get finds a value that does not decode goes on to the
\* repository as on a miss, answering nothing from the cache and leaving
\* it as it is, and when the repository has answered it sets the key to
\* the snapshot of that answer with 15 minutes to live and returns the
\* answer.
C29_UndecodableIsMiss ==
    [][\A p \in Procs :
        LET ck == CodeKey(req[p].code)
            lk == ListKey(req[p].limit, req[p].offset)
        IN
        /\ GetsGarbage(p, "get_cache", ck) =>
            /\ pc'[p] = "get_repo" /\ ~req'[p].hit /\ ~req'[p].repo
            /\ res'[p] = NoResponse /\ cache' = cache
        /\ GetsGarbage(p, "list_cache", lk) =>
            /\ pc'[p] = "list_repo" /\ ~req'[p].hit /\ ~req'[p].repo
            /\ res'[p] = NoResponse /\ cache' = cache
        /\ SetsAfterGarbage(p, "get_set") =>
            /\ req[p].repo /\ req[p].cur \in store
            /\ cache'[ck] = [val |-> Marshal(req[p].cur), ttl |-> CacheTimeout]
            /\ pc'[p] = "done" /\ res'[p].err = "" /\ res'[p].cur = req[p].cur
        /\ SetsAfterGarbage(p, "list_set") =>
            /\ req[p].repo
            /\ req[p].list = RepoGetAll(store, req[p].limit, req[p].offset)
            /\ cache'[lk] = [val |-> MarshalList(req[p].list), ttl |-> CacheTimeout]
            /\ pc'[p] = "done" /\ res'[p].err = "" /\ res'[p].list = req[p].list
      ]_vars

\* A GetCurrencyByCode("USD") that found a value that does not decode has
\* returned the row of the table, and the key holds the row's snapshot
\* with 15 minutes to live.
C29_Witness ==
    \E p \in Procs :
        /\ pc[p] = "done" /\ req[p].svc = "get" /\ req[p].code = USD
        /\ req[p].failed = {"decode"} /\ <<"set", CodeKey(USD)>> \in req[p].touched
        /\ res[p].err = "" /\ res[p].cur \in store
        /\ CodeKey(USD) \in DOMAIN cache
        /\ cache[CodeKey(USD)] = [val |-> Marshal(res[p].cur), ttl |-> CacheTimeout]

\* ===================================================== failed writes
\* The positions of a write in its repository calls, and in invalidateCache.
RepoLabels == {"create_repo", "update_repo", "delete_get", "delete_repo"}
InvalidationLabels == {"inv_del", "inv_keys", "inv_list"}

\* A write of the service has returned an error.
WriteFailed(p) ==
    /\ pc[p] = "done" /\ req[p].svc \in {"create", "update", "delete"}
    /\ res[p].err # ""

\* C30: no repository call of a write changes the cache; a repository call
\* that returns an error ends the write with that error and the table as
\* it was; invalidateCache is entered only with the change committed and
\* ends in success; so a write that returns an error has issued no Del and
\* no Keys.
C30_FailedWriteKeepsCache ==
    [][\A p \in Procs :
        /\ pc[p] \in RepoLabels /\ pc'[p] # pc[p] =>
            /\ cache' = cache
            /\ res'[p].err # "" => pc'[p] = "done" /\ store' = store
            /\ pc'[p] = "done" => res'[p].err # ""
            /\ pc'[p] \in InvalidationLabels => pc'[p] = "inv_del" /\ Committed(p)'
        /\ pc'[p] \in InvalidationLabels =>
            pc[p] \in RepoLabels \cup InvalidationLabels
        /\ pc[p] \in InvalidationLabels /\ pc'[p] = "done" => res'[p].err = ""
        /\ WriteFailed(p)' =>
            /\ \A t \in req'[p].touched : t[1] # "del"
            /\ req'[p].failed \cap InvalidationOps = {} /\ req'[p].keys = {}
      ]_vars

\* A CreateCurrency of USD has returned the duplicate error of the
\* repository while the cache held the entry of USD and a list; both are
\* still there.
C30_Witness ==
    \E p \in Procs :
        /\ WriteFailed(p) /\ req[p].svc = "create" /\ IsDuplicate(res[p].err)
        /\ req[p].touched = {}
        /\ CodeKey(USD) \in DOMAIN cache
        /\ \E k \in DOMAIN cache : IsListKey(k)

\* ================================================= offset of a page
\* C31: the offset GetCurrencies passes to GetAllCurrencies, and the one
\* it reports in the pagination block, is (page - 1) times the limit it
\* passes and reports, and is never negative.
C31_OffsetMatchesLimit ==
    [][\A p \in Procs :
        /\ ListAccepted(p) =>
            /\ req'[p].offset = (req'[p].page - 1) * req'[p].limit
            /\ req'[p].offset >= 0
        /\ pc'[p] = "done" /\ req'[p].h = "list" /\ res'[p].status = 200 =>
            /\ res'[p].offset = (res'[p].page - 1) * res'[p].limit
            /\ res'[p].offset >= 0
      ]_vars
====
